---- MODULE Spec2Model ----
(***************************************************************************)
(* Model of the processing core of the content pipeline:                   *)
(*   src/src/processors/deduplicator.py  (Deduplicator)                    *)
(*   src/src/processors/normalizer.py    (Normalizer)                      *)
(*   src/src/processors/clustering.py    (Clustering)                      *)
(*   src/src/scoring/*_scorer.py         (the five dimension scorers)      *)
(*                                                                         *)
(* Python values are records [ty, v]: ty is the Python type name and v a   *)
(* sequence of one-character (or one-token) strings, so that str methods   *)
(* (strip, lower, len) and conversions (isoformat, str()) are computed on  *)
(* the characters.  A dict is a function from a finite set of keys.        *)
(***************************************************************************)
EXTENDS Integers, Sequences, FiniteSets, TLC

VARIABLES
    phase,                \* which call has been made last
    items,                \* Deduplicator.deduplicate: the input list
    similarity_threshold, \* Deduplicator.similarity_threshold, in tenths
    cmp,                  \* the last are_duplicates call: arguments and results
    dedup_result,         \* what deduplicate(items) returned
    rerun_result,         \* what deduplicate(dedup_result.unique_items) returned
    raw,                  \* Normalizer: the raw item handed to normalize
    raw_after,            \* the raw item as it is after the call
    normalized,           \* what normalize(raw) returned
    date_value,           \* Normalizer.normalize_date: the argument
    date_result,          \* what normalize_date(date_value) returned
    batch,                \* Normalizer.normalize_batch: the input list
    batch_result,         \* what normalize_batch(batch) returned
    taxonomy,             \* Clustering: the keywords handed to the constructor
    cluster_items,        \* Clustering.cluster: the input list
    find_result,          \* the last find_cluster call: position and outcome
    clustered,            \* what cluster(cluster_items) returned
    reclustered,          \* what cluster(...) returned on the list it returned
    high_priority,        \* RelevanceScorer: config.relevance_keywords
    score_item,           \* the item handed to a scorer
    now,                  \* datetime.now() at the time of the call
    score_result,         \* the last score(item) call: scorer and outcome
    dimensions,           \* Config: the 'dimensions' of scoring_weights.yaml
    loaded,               \* ScoreWeights: the weights loaded, and what was logged
    dimension_scores,     \* calculate_weighted_score: the scores handed over
    weighted_score,       \* what calculate_weighted_score returned
    prefer_llm,           \* SummarizerFactory.prefer_llm
    llm_available,        \* SummarizerFactory.llm_available, set at construction
    to_summarize,         \* the items handed to the factory
    ollama_responses,     \* what Ollama answers when asked about each of them
    summarize_result,     \* the last summarize(item) call: position and outcome
    batch_summarized,     \* what summarize_batch(to_summarize) returned
    main_config,          \* main: the sources and the dimensions of the Config
    main_feeds,           \* what feedparser.parse gives for each url
    main_ollama,          \* whether Ollama is up, and what it answers
    main_clock,           \* datetime.now() during the run
    all_items,            \* main: the items fetched, then parsed
    main_items,           \* the dicts of normalized_items, as they are now
    unique_places,        \* unique_items, as places in normalized_items
    clustered_places,     \* clustered_items, likewise
    ranked_places,        \* ranked_items, likewise
    summarized_places,    \* summarized_items, likewise
    main_result           \* the counts main returns

vars == <<phase, items, similarity_threshold, cmp, dedup_result, rerun_result,
          raw, raw_after, normalized, date_value, date_result, batch, batch_result,
          taxonomy, cluster_items, find_result, clustered, reclustered,
          high_priority, score_item, now, score_result,
          dimensions, loaded, dimension_scores, weighted_score,
          prefer_llm, llm_available, to_summarize, ollama_responses, summarize_result,
          batch_summarized,
          main_config, main_feeds, main_ollama, main_clock, all_items, main_items,
          unique_places, clustered_places, ranked_places, summarized_places, main_result>>

dedup_vars == <<items, similarity_threshold, cmp, dedup_result, rerun_result>>
norm_vars == <<raw, raw_after, normalized, date_value, date_result, batch, batch_result>>
cluster_vars == <<taxonomy, cluster_items, find_result, clustered, reclustered>>
score_vars == <<high_priority, score_item, now, score_result>>
weights_vars == <<dimensions, loaded, dimension_scores, weighted_score>>
summ_vars == <<prefer_llm, llm_available, to_summarize, ollama_responses, summarize_result,
               batch_summarized>>
main_vars == <<main_config, main_feeds, main_ollama, main_clock, all_items, main_items,
               unique_places, clustered_places, ranked_places, summarized_places,
               main_result>>

----------------------------------------------------------------------------
(* Bounds of the model *)

MaxItems == 3      \* longest list handed to deduplicate
MaxKeys == 2       \* most keys of a raw item handed to normalize
MaxBatch == 3      \* longest list handed to normalize_batch
MaxClusterItems == 2   \* longest list handed to cluster
MaxSummarized == 2     \* longest list handed to summarize_batch

----------------------------------------------------------------------------
(* Python values *)

Str(s) == [ty |-> "str", v |-> s]
None == [ty |-> "NoneType", v |-> <<>>]
PyInt(digits) == [ty |-> "int", v |-> digits]
DateTime(y, m, d) == [ty |-> "datetime", v |-> <<y, m, d>>]
Dict(d) == [ty |-> "dict", v |-> d]

\* how a call ends: with a value, or with an exception
Returned(x) == [raised |-> FALSE, value |-> x]
Raised(exception) == [raised |-> TRUE, value |-> Str(<<exception>>)]

\* bool(x): None, "", 0 and {} are false
Truthy(x) ==
    /\ x.ty # "NoneType"
    /\ ~(x.ty = "str" /\ x.v = <<>>)
    /\ ~(x.ty = "int" /\ x.v = <<"0">>)
    /\ ~(x.ty = "dict" /\ x.v = <<>>)

\* a or b
Or(a, b) == IF Truthy(a) THEN a ELSE b

\* dict.get(key, default)
Get(d, key, default) == IF key \in DOMAIN d THEN d[key] ELSE default

\* c * n
Rep(c, n) == [k \in 1..n |-> c]

\* str.lower() on the characters the model uses
LowerChar(c) ==
    CASE c = "A" -> "a"
      [] c = "B" -> "b"
      [] c = "C" -> "c"
      [] c = "D" -> "d"
      [] c = "E" -> "e"
      [] c = "F" -> "f"
      [] c = "G" -> "g"
      [] c = "H" -> "h"
      [] c = "I" -> "i"
      [] c = "J" -> "j"
      [] c = "K" -> "k"
      [] c = "L" -> "l"
      [] c = "M" -> "m"
      [] c = "N" -> "n"
      [] c = "O" -> "o"
      [] c = "P" -> "p"
      [] c = "Q" -> "q"
      [] c = "R" -> "r"
      [] c = "S" -> "s"
      [] c = "T" -> "t"
      [] c = "U" -> "u"
      [] c = "V" -> "v"
      [] c = "W" -> "w"
      [] c = "X" -> "x"
      [] c = "Y" -> "y"
      [] c = "Z" -> "z"
      [] OTHER -> c

lower(s) == [k \in 1..Len(s) |-> LowerChar(s[k])]

IsSpace(c) == c = " "

\* str.strip(): drop leading and trailing whitespace
RECURSIVE lstrip(_)
lstrip(s) ==
    IF s # <<>> /\ IsSpace(Head(s)) THEN lstrip(Tail(s)) ELSE s

RECURSIVE rstrip(_)
rstrip(s) ==
    IF s # <<>> /\ IsSpace(s[Len(s)]) THEN rstrip(SubSeq(s, 1, Len(s) - 1)) ELSE s

strip(s) == rstrip(lstrip(s))

\* x in s for two str: s has x as a contiguous piece
In(x, s) ==
    \E k \in 0..(Len(s) - Len(x)) : SubSeq(s, k + 1, k + Len(x)) = x

\* format(x) in an f-string: a str as it is, None as "None", an int as its
\* digits
format(x) ==
    IF x.ty = "NoneType" THEN <<"N", "o", "n", "e">> ELSE x.v

\* the dict {}
EmptyDict == [key \in {} |-> None]

\* No call of the Clustering or of a scorer has been made.
ClusterIdle ==
    /\ taxonomy = None
    /\ cluster_items = <<>>
    /\ find_result = [k |-> 0, outcome |-> Returned(<<>>)]
    /\ clustered = Returned(<<>>)
    /\ reclustered = Returned(<<>>)

ScoreIdle ==
    /\ high_priority = <<>>
    /\ score_item = EmptyDict
    /\ now = None
    /\ score_result = [scorer |-> "", outcome |-> Returned(<<>>)]

\* No ScoreWeights has been constructed.
NoWeights == [weights |-> EmptyDict, warning |-> FALSE, error |-> FALSE]

WeightsIdle ==
    /\ dimensions = EmptyDict
    /\ loaded = NoWeights
    /\ dimension_scores = EmptyDict
    /\ weighted_score = None

\* No SummarizerFactory has been constructed.
NoSummary == [k |-> 0, outcome |-> Returned(<<>>)]

SummarizeIdle ==
    /\ prefer_llm = FALSE
    /\ llm_available = FALSE
    /\ to_summarize = <<>>
    /\ ollama_responses = <<>>
    /\ summarize_result = NoSummary
    /\ batch_summarized = <<>>

NoStats == [items_fetched |-> 0, items_processed |-> 0, items_unique |-> 0,
            items_scored |-> 0, items_summarized |-> 0]

MainIdle ==
    /\ main_config = [sources |-> <<>>, dimensions |-> EmptyDict]
    /\ main_feeds = <<>>
    /\ main_ollama = [available |-> FALSE, answer |-> None]
    /\ main_clock = None
    /\ all_items = <<>>
    /\ main_items = <<>>
    /\ unique_places = <<>>
    /\ clustered_places = <<>>
    /\ ranked_places = <<>>
    /\ summarized_places = <<>>
    /\ main_result = NoStats

----------------------------------------------------------------------------
(* difflib.SequenceMatcher(None, a, b).ratio(), as calculate_similarity    *)
(* uses it.  Positions are 1-based; a window is lo..hi-1 as in the Python. *)
(* No element is junk (isjunk is None) and the automatic junk heuristic    *)
(* only applies to a second sequence of 200 or more elements, longer than  *)
(* any content of the model.                                               *)

\* the loop over j of find_longest_match for one i: j2len holds, for every j
\* of the window blo..bhi-1 (at index j - blo + 1), the length of the longest
\* match ending at a[i-1], b[j]; the result is the same for a[i] (newj2len)
flm_row(a, b, i, blo, bhi, j2len) ==
    SubSeq([t \in 1..(bhi - blo) |->
               IF a[i] = b[blo + t - 1]
               THEN (IF t > 1 THEN j2len[t - 1] ELSE 0) + 1
               ELSE 0],
           1, bhi - blo)

\* the first index in lo..hi at which row is largest: the j at which the
\* loop over j sets bestsize last (k > bestsize is strict)
RECURSIVE first_max(_, _, _)
first_max(row, lo, hi) ==
    IF lo = hi THEN lo
    ELSE LET mid == (lo + hi) \div 2
             l == first_max(row, lo, mid)
             r == first_max(row, mid + 1, hi)
         IN IF row[r] > row[l] THEN r ELSE l

\* the loop over i of find_longest_match; best is (besti, bestj, bestsize)
RECURSIVE flm_scan(_, _, _, _, _, _, _, _)
flm_scan(a, b, i, ahi, blo, bhi, j2len, best) ==
    IF i >= ahi THEN best
    ELSE LET newj2len == flm_row(a, b, i, blo, bhi, j2len)
             t == first_max(newj2len, 1, bhi - blo)
             k == newj2len[t]
         IN IF k > best.size
            THEN flm_scan(a, b, i + 1, ahi, blo, bhi, newj2len,
                          [i |-> i - k + 1, j |-> (blo + t - 1) - k + 1, size |-> k])
            ELSE flm_scan(a, b, i + 1, ahi, blo, bhi, newj2len, best)

find_longest_match(a, b, alo, ahi, blo, bhi) ==
    IF blo >= bhi THEN [i |-> alo, j |-> blo, size |-> 0]
    ELSE flm_scan(a, b, alo, ahi, blo, bhi, [t \in 1..(bhi - blo) |-> 0],
                  [i |-> alo, j |-> blo, size |-> 0])

\* the sum of the sizes of get_matching_blocks(): the longest match, then
\* the pieces to its left and to its right
RECURSIVE matches(_, _, _, _, _, _)
matches(a, b, alo, ahi, blo, bhi) ==
    LET m == find_longest_match(a, b, alo, ahi, blo, bhi)
    IN IF m.size = 0 THEN 0
       ELSE m.size
            + (IF alo < m.i /\ blo < m.j
               THEN matches(a, b, alo, m.i, blo, m.j) ELSE 0)
            + (IF m.i + m.size < ahi /\ m.j + m.size < bhi
               THEN matches(a, b, m.i + m.size, ahi, m.j + m.size, bhi) ELSE 0)

\* ratio() = 2.0 * matches / (len(a) + len(b)), kept as a fraction
ratio(a, b) ==
    IF Len(a) + Len(b) = 0 THEN [num |-> 1, den |-> 1]
    ELSE [num |-> 2 * matches(a, b, 1, Len(a) + 1, 1, Len(b) + 1),
          den |-> Len(a) + Len(b)]

----------------------------------------------------------------------------
(* Deduplicator *)

default_similarity_threshold == 8    \* similarity_threshold: float = 0.8, in tenths
MIN_CONTENT_LENGTH == 50

\* similarity >= self.similarity_threshold, for a fraction and tenths
AtLeast(similarity, threshold) ==
    similarity.num * 10 >= threshold * similarity.den

\* The contents the model hands to the deduplicator.
ContentShort == <<"X">>
ContentA == Rep("b", 25) \o Rep("a", 5) \o Rep("b", 20)      \* 50 characters
ContentAUpper == Rep("B", 25) \o Rep("a", 5) \o Rep("b", 20) \* ContentA in another case
ContentB == Rep("a", 5) \o Rep("b", 50)                       \* 55 characters
ContentC == Rep("b", 25) \o Rep("c", 10) \o Rep("b", 15)     \* 50 characters
Content49 == Rep("b", 25) \o Rep("a", 5) \o Rep("b", 19)     \* 49 characters
ContentPool ==
    {<<>>, ContentShort, ContentA, ContentAUpper, ContentB, ContentC, Content49}

\* ratio() on the case-folded contents of the pool, computed once: TLC keeps
\* the value of a constant set, and would compute ratio(a, b) again at
\* every use
ratio_table ==
    LET folded == {SubSeq(lower(c), 1, Len(c)) :
                      c \in {x \in ContentPool : Len(x) >= MIN_CONTENT_LENGTH}}
    IN {<<p[1], p[2], ratio(p[1], p[2])>> : p \in folded \X folded}

SequenceMatcher_ratio(a, b) ==
    IF \E e \in ratio_table : e[1] = a /\ e[2] = b
    THEN (CHOOSE e \in ratio_table : e[1] = a /\ e[2] = b)[3]
    ELSE ratio(a, b)

calculate_similarity(text1, text2) ==
    IF text1 = <<>> \/ text2 = <<>> THEN [num |-> 0, den |-> 1]
    ELSE SequenceMatcher_ratio(lower(text1), lower(text2))

\* are_duplicates, with > for >= in the comparison with the threshold
are_duplicates_greater(item1, item2, threshold) ==
    LET title1 == strip(Get(item1, "title", Str(<<>>)).v)
        title2 == strip(Get(item2, "title", Str(<<>>)).v)
        content1 == Get(item1, "content", Str(<<>>)).v
        content2 == Get(item2, "content", Str(<<>>)).v
        similarity == calculate_similarity(content1, content2)
    IN IF title1 # <<>> /\ title2 # <<>> /\ lower(title1) = lower(title2)
       THEN TRUE
       ELSE IF /\ content1 # <<>> /\ content2 # <<>>
               /\ Len(content1) >= MIN_CONTENT_LENGTH
               /\ Len(content2) >= MIN_CONTENT_LENGTH
            THEN similarity.num * 10 > threshold * similarity.den
            ELSE FALSE

\* are_duplicates(item1, item2) of a Deduplicator with the given threshold;
\* title and content are str
are_duplicates(item1, item2, threshold) ==
    LET title1 == strip(Get(item1, "title", Str(<<>>)).v)
        title2 == strip(Get(item2, "title", Str(<<>>)).v)
        content1 == Get(item1, "content", Str(<<>>)).v
        content2 == Get(item2, "content", Str(<<>>)).v
    IN IF title1 # <<>> /\ title2 # <<>> /\ lower(title1) = lower(title2)
       THEN TRUE
       ELSE IF /\ content1 # <<>> /\ content2 # <<>>
               /\ Len(content1) >= MIN_CONTENT_LENGTH
               /\ Len(content2) >= MIN_CONTENT_LENGTH
            THEN AtLeast(calculate_similarity(content1, content2), threshold)
            ELSE FALSE

\* scan_later, comparing items[j] with every member of the group so far
RECURSIVE scan_later_members(_, _, _, _, _)
scan_later_members(list, i, j, acc, threshold) ==
    IF j > Len(list) THEN acc
    ELSE IF j \in acc.processed_indices
         THEN scan_later_members(list, i, j + 1, acc, threshold)
    ELSE IF \E k \in 1..Len(acc.duplicates) :
                are_duplicates(acc.duplicates[k], list[j], threshold)
         THEN scan_later_members(list, i, j + 1,
                         [duplicates |-> Append(acc.duplicates, list[j]),
                          processed_indices |-> acc.processed_indices \cup {j}],
                         threshold)
    ELSE scan_later_members(list, i, j + 1, acc, threshold)

\* scan_later, forgetting to mark items[j] as processed
RECURSIVE scan_later_unmarked(_, _, _, _, _)
scan_later_unmarked(list, i, j, acc, threshold) ==
    IF j > Len(list) THEN acc
    ELSE IF j \in acc.processed_indices
         THEN scan_later_unmarked(list, i, j + 1, acc, threshold)
    ELSE IF are_duplicates(list[i], list[j], threshold)
         THEN scan_later_unmarked(list, i, j + 1,
                         [duplicates |-> Append(acc.duplicates, list[j]),
                          processed_indices |-> acc.processed_indices],
                         threshold)
    ELSE scan_later_unmarked(list, i, j + 1, acc, threshold)

\* the loop over j of deduplicate (lines 102-108): acc is
\* [duplicates, processed_indices]
RECURSIVE scan_later(_, _, _, _, _)
scan_later(list, i, j, acc, threshold) ==
    IF j > Len(list) THEN acc
    ELSE IF j \in acc.processed_indices
         THEN scan_later(list, i, j + 1, acc, threshold)
    ELSE IF are_duplicates(list[i], list[j], threshold)
         THEN scan_later(list, i, j + 1,
                         [duplicates |-> Append(acc.duplicates, list[j]),
                          processed_indices |-> acc.processed_indices \cup {j}],
                         threshold)
    ELSE scan_later(list, i, j + 1, acc, threshold)

\* scan_items, keeping the last member of a group instead of the first
RECURSIVE scan_items_keep_last(_, _, _, _)
scan_items_keep_last(list, i, st, threshold) ==
    IF i > Len(list) THEN st
    ELSE IF i \in st.processed_indices
         THEN scan_items_keep_last(list, i + 1, st, threshold)
    ELSE LET found == scan_later(list, i, i + 1,
                                 [duplicates |-> <<list[i]>>,
                                  processed_indices |-> st.processed_indices \cup {i}],
                                 threshold)
         IN scan_items_keep_last(list, i + 1,
                       [unique_items |->
                            Append(st.unique_items,
                                   found.duplicates[Len(found.duplicates)]),
                        duplicate_groups |->
                            IF Len(found.duplicates) > 1
                            THEN Append(st.duplicate_groups, found.duplicates)
                            ELSE st.duplicate_groups,
                        processed_indices |-> found.processed_indices],
                       threshold)

\* the loop over i of deduplicate (lines 94-115)
RECURSIVE scan_items(_, _, _, _)
scan_items(list, i, st, threshold) ==
    IF i > Len(list) THEN st
    ELSE IF i \in st.processed_indices
         THEN scan_items(list, i + 1, st, threshold)
    ELSE LET found == scan_later(list, i, i + 1,
                                 [duplicates |-> <<list[i]>>,
                                  processed_indices |-> st.processed_indices \cup {i}],
                                 threshold)
         IN scan_items(list, i + 1,
                       [unique_items |-> Append(st.unique_items, list[i]),
                        duplicate_groups |->
                            IF Len(found.duplicates) > 1
                            THEN Append(st.duplicate_groups, found.duplicates)
                            ELSE st.duplicate_groups,
                        processed_indices |-> found.processed_indices],
                       threshold)

\* deduplicate, counting only the items that have no duplicate
deduplicate_counting_singles(list, threshold) ==
    IF list = <<>>
    THEN [unique_count |-> 0, unique_items |-> <<>>, duplicate_groups |-> <<>>]
    ELSE LET st == scan_items(list, 1,
                              [unique_items |-> <<>>, duplicate_groups |-> <<>>,
                               processed_indices |-> {}],
                              threshold)
         IN [unique_count |-> Len(st.unique_items) - Len(st.duplicate_groups),
             unique_items |-> st.unique_items,
             duplicate_groups |-> st.duplicate_groups]

\* Deduplicator.deduplicate
deduplicate(list, threshold) ==
    IF list = <<>>
    THEN [unique_count |-> 0, unique_items |-> <<>>, duplicate_groups |-> <<>>]
    ELSE LET st == scan_items(list, 1,
                              [unique_items |-> <<>>, duplicate_groups |-> <<>>,
                               processed_indices |-> {}],
                              threshold)
         IN [unique_count |-> Len(st.unique_items),
             unique_items |-> st.unique_items,
             duplicate_groups |-> st.duplicate_groups]

\* The articles the model hands to the deduplicator: title and content; the
\* url is given by the position in the list, so that no two entries of a
\* list are the same dict.
Article(title, content) == [title |-> Str(title), content |-> Str(content)]

ArticlePool ==
    { Article(<<"A", "b">>, ContentShort),
      Article(<<"a", "b", " ">>, ContentA),
      Article(<<" ">>, ContentShort),
      Article(<<"c", "d">>, ContentAUpper),
      Article(<<>>, ContentB),
      Article(<<"c", "d">>, <<>>),
      Article(<<"x">>, ContentC),
      [content |-> Str(Content49)] }

UrlAt(k) == Str(<<"u", CASE k = 1 -> "1" [] k = 2 -> "2" [] k = 3 -> "3"
                         [] k = 4 -> "4" [] OTHER -> "5">>)

WithUrl(list) ==
    [k \in 1..Len(list) |->
        [key \in DOMAIN list[k] \cup {"url"} |->
            IF key = "url" THEN UrlAt(k) ELSE list[k][key]]]

Lists(n) == UNION {[1..k -> ArticlePool] : k \in 0..n}

Thresholds == {default_similarity_threshold, 10}

NoResult == [unique_count |-> 0, unique_items |-> <<>>, duplicate_groups |-> <<>>]
NoCmp == [i |-> 0, j |-> 0, forward |-> FALSE, backward |-> FALSE]

InitDedup ==
    /\ phase = "items"
    /\ items \in {WithUrl(l) : l \in Lists(MaxItems)}
    /\ similarity_threshold \in Thresholds
    /\ cmp = NoCmp
    /\ dedup_result = NoResult
    /\ rerun_result = NoResult
    /\ raw = Dict(<<>>)
    /\ raw_after = Dict(<<>>)
    /\ normalized = Returned(<<>>)
    /\ date_value = None
    /\ date_result = Returned(<<>>)
    /\ batch = <<>>
    /\ batch_result = Returned(<<>>)
    /\ ClusterIdle
    /\ ScoreIdle
    /\ WeightsIdle
    /\ SummarizeIdle
    /\ MainIdle

\* are_duplicates(items[i], items[j]) and are_duplicates(items[j], items[i])
AreDuplicates(i, j) ==
    /\ phase = "items"
    /\ phase' = "compared"
    /\ cmp' = [i |-> i, j |-> j,
               forward |-> are_duplicates(items[i], items[j], similarity_threshold),
               backward |-> are_duplicates(items[j], items[i], similarity_threshold)]
    /\ UNCHANGED <<items, similarity_threshold, dedup_result, rerun_result>>
    /\ UNCHANGED <<norm_vars, cluster_vars, score_vars, weights_vars, summ_vars, main_vars>>

\* deduplicate(items)
Deduplicate ==
    /\ phase = "items"
    /\ phase' = "deduplicated"
    /\ dedup_result' = deduplicate(items, similarity_threshold)
    /\ UNCHANGED <<items, similarity_threshold, cmp, rerun_result>>
    /\ UNCHANGED <<norm_vars, cluster_vars, score_vars, weights_vars, summ_vars, main_vars>>

\* deduplicate(unique_items) on the list the first call returned
DeduplicateAgain ==
    /\ phase = "deduplicated"
    /\ phase' = "rerun"
    /\ rerun_result' = deduplicate(dedup_result.unique_items, similarity_threshold)
    /\ UNCHANGED <<items, similarity_threshold, cmp, dedup_result>>
    /\ UNCHANGED <<norm_vars, cluster_vars, score_vars, weights_vars, summ_vars, main_vars>>

NextDedup ==
    \/ \E i \in 1..Len(items) : \E j \in i..Len(items) : AreDuplicates(i, j)
    \/ Deduplicate
    \/ DeduplicateAgain

SpecDedup == InitDedup /\ [][NextDedup]_vars

----------------------------------------------------------------------------
(* Normalizer *)

REQUIRED_FIELDS == {"title", "content", "url", "published_date", "source"}

NoDateAvailable == <<"No date available">>

\* Dates are written in tokens: "2024-01-15" is <<"2024", "-", "01", "-", "15">>.
Years == {"2023", "2024"}
Months == {"01", "12"}
Days == {"15", "31"}
MonthNames == {"Jan", "Dec"}
MonthNumber(name) == IF name = "Jan" THEN "01" ELSE "12"

\* dateutil.parser.parse on the forms the model uses: year-month-day and
\* day month-name year give a datetime at midnight, anything else raises
date_parser_parse(s) ==
    IF /\ Len(s) = 5 /\ s[1] \in Years /\ s[2] = "-" /\ s[3] \in Months
       /\ s[4] = "-" /\ s[5] \in Days
    THEN Returned(DateTime(s[1], s[3], s[5]))
    ELSE IF /\ Len(s) = 5 /\ s[1] \in Days /\ s[2] = " " /\ s[3] \in MonthNames
            /\ s[4] = " " /\ s[5] \in Years
    THEN Returned(DateTime(s[5], MonthNumber(s[3]), s[1]))
    ELSE Raised("ParserError")

\* datetime.isoformat() of a datetime at midnight
isoformat(dt) ==
    <<dt.v[1], "-", dt.v[2], "-", dt.v[3], "T", "00", ":", "00", ":", "00">>

\* str(x) of an int: its digits
str(x) == x.v

normalize_date(date_value_) ==
    IF ~Truthy(date_value_) THEN Str(NoDateAvailable)
    ELSE IF date_value_.ty = "datetime" THEN Str(isoformat(date_value_))
    ELSE IF date_value_.ty = "str"
         THEN LET parsed_date == date_parser_parse(date_value_.v)
              IN IF parsed_date.raised THEN Str(NoDateAvailable)
                 ELSE Str(isoformat(parsed_date.value))
    ELSE Str(str(date_value_))

\* lines 56-63 of normalize_item: the five required fields of the dict d
required_fields(d) ==
    [title |-> Get(d, "title", Str(<<"Untitled">>)),
     content |-> Or(Or(Or(Get(d, "content", None), Get(d, "summary", None)),
                       Get(d, "description", None)),
                    Str(<<>>)),
     url |-> Or(Or(Get(d, "url", None), Get(d, "link", None)), Str(<<>>)),
     published_date |->
         normalize_date(Or(Or(Get(d, "published_date", None), Get(d, "published", None)),
                           Get(d, "pubDate", None))),
     source |-> Get(d, "source", Str(<<"Unknown">>))]

\* normalize_item, with the copy of the extra fields overwriting what is set
normalize_item_overwriting(item) ==
    IF item.ty # "dict" THEN Raised("AttributeError")
    ELSE LET set == required_fields(item.v)
         IN Returned([key \in DOMAIN set \cup DOMAIN item.v |->
                         IF key \in DOMAIN item.v THEN item.v[key] ELSE set[key]])

\* normalize_item, without the copy of the extra fields
normalize_item_required_only(item) ==
    IF item.ty # "dict" THEN Raised("AttributeError")
    ELSE Returned(required_fields(item.v))

\* normalize_item(item): item.get raises on anything that is not a dict
normalize_item(item) ==
    IF item.ty # "dict" THEN Raised("AttributeError")
    ELSE LET set == required_fields(item.v)
         IN Returned([key \in DOMAIN set \cup DOMAIN item.v |->
                         IF key \in DOMAIN set THEN set[key] ELSE item.v[key]])

normalize(item) == normalize_item(item)

\* the loop of normalize_batch, giving up the batch at the first failure
RECURSIVE batch_loop_aborting(_, _, _)
batch_loop_aborting(list, k, normalized_items) ==
    IF k > Len(list) THEN normalized_items
    ELSE IF list[k].ty = "NoneType"
         THEN batch_loop_aborting(list, k + 1, normalized_items)
    ELSE LET normalized_item == normalize_item(list[k])
         IN IF normalized_item.raised
            THEN normalized_items
            ELSE batch_loop_aborting(list, k + 1,
                                     Append(normalized_items, normalized_item.value))

\* the loop of normalize_batch (lines 96-105)
RECURSIVE batch_loop(_, _, _)
batch_loop(list, k, normalized_items) ==
    IF k > Len(list) THEN normalized_items
    ELSE IF list[k].ty = "NoneType"
         THEN batch_loop(list, k + 1, normalized_items)
    ELSE LET normalized_item == normalize_item(list[k])
         IN IF normalized_item.raised
            THEN batch_loop(list, k + 1, normalized_items)
            ELSE batch_loop(list, k + 1,
                            Append(normalized_items, normalized_item.value))

normalize_batch(list) == batch_loop(list, 1, <<>>)

\* The inputs of the model.
IsoDay == <<"2024", "-", "01", "-", "15">>

NormKeys ==
    {"title", "content", "summary", "description", "url", "link",
     "published_date", "published", "pubDate", "source", "author"}

RawValues ==
    {None, Str(<<>>), Str(<<"a">>), PyInt(<<"7">>), Str(IsoDay),
     DateTime("2023", "12", "31")}

RawDicts(n) ==
    UNION {[K -> RawValues] : K \in {S \in SUBSET NormKeys : Cardinality(S) <= n}}

DateValues ==
    {None, Str(<<>>), PyInt(<<"0">>), PyInt(<<"7">>), Str(<<"a">>), Str(IsoDay),
     Str(<<"2023", "-", "12", "-", "31">>), Str(<<"15", " ", "Jan", " ", "2024">>),
     DateTime("2024", "01", "15"), DateTime("2023", "12", "31")}

BatchEntries ==
    {None, Dict(<<>>), Dict([title |-> Str(<<"a">>)]),
     Dict([title |-> None, link |-> Str(<<"a">>)]),
     Str(<<"a">>), PyInt(<<"7">>)}

NoCall == Returned(<<>>)

InitNormalize ==
    /\ \/ /\ phase = "raw"
          /\ raw \in {Dict(d) : d \in RawDicts(MaxKeys)}
          /\ date_value = None
          /\ batch = <<>>
       \/ /\ phase = "date"
          /\ raw = Dict(<<>>)
          /\ date_value \in DateValues
          /\ batch = <<>>
       \/ /\ phase = "batch"
          /\ raw = Dict(<<>>)
          /\ date_value = None
          /\ batch \in UNION {[1..n -> BatchEntries] : n \in 0..MaxBatch}
    /\ raw_after = raw
    /\ normalized = NoCall
    /\ date_result = NoCall
    /\ batch_result = NoCall
    /\ items = <<>>
    /\ similarity_threshold = default_similarity_threshold
    /\ cmp = NoCmp
    /\ dedup_result = NoResult
    /\ rerun_result = NoResult
    /\ ClusterIdle
    /\ ScoreIdle
    /\ WeightsIdle
    /\ SummarizeIdle
    /\ MainIdle

\* normalize(raw); the dict handed in is only read
Normalize ==
    /\ phase = "raw"
    /\ phase' = "normalized"
    /\ normalized' = normalize(raw)
    /\ raw_after' = raw
    /\ UNCHANGED <<raw, date_value, date_result, batch, batch_result>>
    /\ UNCHANGED <<dedup_vars, cluster_vars, score_vars, weights_vars, summ_vars, main_vars>>

\* normalize_date(date_value)
NormalizeDate ==
    /\ phase = "date"
    /\ phase' = "date_normalized"
    /\ date_result' = Returned(normalize_date(date_value))
    /\ UNCHANGED <<raw, raw_after, normalized, date_value, batch, batch_result>>
    /\ UNCHANGED <<dedup_vars, cluster_vars, score_vars, weights_vars, summ_vars, main_vars>>

\* normalize_batch(batch)
NormalizeBatch ==
    /\ phase = "batch"
    /\ phase' = "batch_normalized"
    /\ batch_result' = Returned(normalize_batch(batch))
    /\ UNCHANGED <<raw, raw_after, normalized, date_value, date_result, batch>>
    /\ UNCHANGED <<dedup_vars, cluster_vars, score_vars, weights_vars, summ_vars, main_vars>>

NextNormalize ==
    \/ Normalize
    \/ NormalizeDate
    \/ NormalizeBatch

SpecNormalize == InitNormalize /\ [][NextNormalize]_vars

\* No call of the Deduplicator or of the Normalizer has been made.
DedupIdle ==
    /\ items = <<>>
    /\ similarity_threshold = default_similarity_threshold
    /\ cmp = NoCmp
    /\ dedup_result = NoResult
    /\ rerun_result = NoResult

NormalizeIdle ==
    /\ raw = Dict(<<>>)
    /\ raw_after = Dict(<<>>)
    /\ normalized = NoCall
    /\ date_value = None
    /\ date_result = NoCall
    /\ batch = <<>>
    /\ batch_result = NoCall

----------------------------------------------------------------------------
(* Clustering *)

\* A dict whose order matters (the taxonomy) is the sequence of its entries
\* in insertion order.
Clustering_default_keywords ==
    << [cluster_name |-> "agentic_security",
        keyword_list |-> <<<<"a", "g", "e", "n", "t">>, <<"a", "g", "e", "n", "t", "i", "c">>,
            <<"t", "o", "o", "l", " ", "c", "a", "l", "l", "i", "n", "g">>, <<"f", "u", "n", "c",
                "t", "i", "o", "n", " ", "c", "a", "l", "l", "i", "n", "g">>, <<"a", "u", "t", "o",
                    "n", "o", "m", "o", "u", "s">>>>],
       [cluster_name |-> "prompt_injection",
        keyword_list |-> <<<<"p", "r", "o", "m", "p", "t", " ", "i", "n", "j", "e", "c", "t", "i",
            "o", "n">>, <<"j", "a", "i", "l", "b", "r", "e", "a", "k">>, <<"p", "r", "o", "m", "p",
                "t", " ", "a", "t", "t", "a", "c", "k">>, <<"i", "n", "d", "i", "r", "e", "c", "t",
                    " ", "i", "n", "j", "e", "c", "t", "i", "o", "n">>>>],
       [cluster_name |-> "hitl",
        keyword_list |-> <<<<"h", "u", "m", "a", "n", "-", "i", "n", "-", "t", "h", "e", "-", "l",
            "o", "o", "p">>, <<"H", "I", "T", "L">>, <<"k", "i", "l", "l", " ", "s", "w", "i", "t",
                "c", "h">>, <<"h", "u", "m", "a", "n", " ", "o", "v", "e", "r", "s", "i", "g", "h",
                    "t">>>>],
       [cluster_name |-> "observability",
        keyword_list |-> <<<<"o", "b", "s", "e", "r", "v", "a", "b", "i", "l", "i", "t", "y">>,
            <<"t", "r", "a", "c", "i", "n", "g">>, <<"a", "u", "d", "i", "t">>, <<"l", "o", "g",
                "g", "i", "n", "g">>, <<"m", "o", "n", "i", "t", "o", "r", "i", "n", "g">>>>],
       [cluster_name |-> "shadow_ai",
        keyword_list |-> <<<<"s", "h", "a", "d", "o", "w", " ", "A", "I">>, <<"g", "o", "v", "e",
            "r", "n", "a", "n", "c", "e">>, <<"p", "o", "l", "i", "c", "y">>, <<"c", "o", "m", "p",
                "l", "i", "a", "n", "c", "e">>>>],
       [cluster_name |-> "data_leakage",
        keyword_list |-> <<<<"d", "a", "t", "a", " ", "l", "e", "a", "k", "a", "g", "e">>, <<"d",
            "a", "t", "a", " ", "e", "x", "f", "i", "l", "t", "r", "a", "t", "i", "o", "n">>,
                <<"p", "r", "i", "v", "a", "c", "y">>, <<"P", "I", "I">>>>],
       [cluster_name |-> "model_supply_chain",
        keyword_list |-> <<<<"m", "o", "d", "e", "l", " ", "s", "u", "p", "p", "l", "y", " ", "c",
            "h", "a", "i", "n">>, <<"m", "o", "d", "e", "l", " ", "s", "e", "c", "u", "r", "i",
                "t", "y">>, <<"p", "o", "i", "s", "o", "n", "i", "n", "g">>, <<"b", "a", "c", "k",
                    "d", "o", "o", "r">>>>],
       [cluster_name |-> "vuln_exploit",
        keyword_list |-> <<<<"v", "u", "l", "n", "e", "r", "a", "b", "i", "l", "i", "t", "y">>,
            <<"e", "x", "p", "l", "o", "i", "t">>, <<"C", "V", "E">>, <<"z", "e", "r", "o", "-",
                "d", "a", "y">>>>],
       [cluster_name |-> "regulatory",
        keyword_list |-> <<<<"r", "e", "g", "u", "l", "a", "t", "i", "o", "n">>, <<"r", "e", "g",
            "u", "l", "a", "t", "o", "r", "y">>, <<"c", "o", "m", "p", "l", "i", "a", "n", "c",
                "e">>, <<"G", "D", "P", "R">>, <<"A", "I", " ", "A", "c", "t">>, <<"N", "I", "S",
                    "T">>>>] >>

\* Clustering(keywords).keywords
Clustering_init(keywords) == Or(keywords, Dict(Clustering_default_keywords)).v

\* how many keywords of keyword_list have keyword.lower() in text
count_matches(keyword_list, text) ==
    Cardinality({k \in 1..Len(keyword_list) : In(lower(keyword_list[k]), text)})

\* cluster_scores after the loop of lines 59-62: a cluster gets its entry at
\* its first matching keyword, so the entries are in the order of the taxonomy
cluster_scores(keywords, text) ==
    LET counted == [k \in 1..Len(keywords) |->
                       [cluster_name |-> keywords[k].cluster_name,
                        matches |-> count_matches(keywords[k].keyword_list, text)]]
        Matched(entry) == entry.matches > 0
    IN SelectSeq(counted, Matched)

\* max, keeping the last of the largest entries
max_last(scores) ==
    LET k == CHOOSE k \in 1..Len(scores) :
                 /\ \A l \in 1..Len(scores) : scores[l].matches <= scores[k].matches
                 /\ \A l \in (k + 1)..Len(scores) : scores[l].matches < scores[k].matches
    IN scores[k].cluster_name

\* max(cluster_scores, key=cluster_scores.get): the first of the entries
\* with the largest count
max(scores) ==
    LET k == CHOOSE k \in 1..Len(scores) :
                 /\ \A l \in 1..Len(scores) : scores[l].matches <= scores[k].matches
                 /\ \A l \in 1..(k - 1) : scores[l].matches < scores[k].matches
    IN scores[k].cluster_name

general == Str(<<"general">>)

\* find_cluster(item) of a Clustering with these keywords; .lower() raises
\* on a title or a content that is not a str
find_cluster(item, keywords) ==
    LET title == Get(item, "title", Str(<<>>))
        content == Get(item, "content", Str(<<>>))
    IN IF title.ty # "str" \/ content.ty # "str" THEN Raised("AttributeError")
       ELSE LET text == lower(title.v) \o <<" ">> \o lower(content.v)
                scores == cluster_scores(keywords, text)
            IN IF scores # <<>> THEN Returned(Str(<<max(scores)>>))
               ELSE Returned(general)

\* item[key] = value
SetItem(item, key, value) ==
    [k \in DOMAIN item \cup {key} |-> IF k = key THEN value ELSE item[k]]

\* the loop of cluster, leaving the loop at the first item that fails
RECURSIVE cluster_loop_aborting(_, _, _, _)
cluster_loop_aborting(list, k, clustered_items, keywords) ==
    IF k > Len(list) THEN clustered_items
    ELSE LET cluster_id == find_cluster(list[k], keywords)
         IN IF cluster_id.raised
            THEN Append(clustered_items, SetItem(list[k], "cluster_id", general))
            ELSE cluster_loop_aborting(list, k + 1,
                     Append(clustered_items,
                            SetItem(list[k], "cluster_id", cluster_id.value)),
                     keywords)

\* the loop of cluster (lines 83-91)
RECURSIVE cluster_loop(_, _, _, _)
cluster_loop(list, k, clustered_items, keywords) ==
    IF k > Len(list) THEN clustered_items
    ELSE LET cluster_id == find_cluster(list[k], keywords)
         IN cluster_loop(list, k + 1,
                Append(clustered_items,
                       SetItem(list[k], "cluster_id",
                               IF cluster_id.raised THEN general ELSE cluster_id.value)),
                keywords)

cluster(list, keywords) == cluster_loop(list, 1, <<>>, keywords)

\* The taxonomies and the items the model hands to the Clustering.
CustomKeywords ==
    << [cluster_name |-> "zeta", keyword_list |-> <<<<"A", "U", "D", "I", "T">>, <<"x">>>>],
       [cluster_name |-> "alpha", keyword_list |-> <<<<"x">>, <<"a", "g", "e", "n", "t">>>>] >>

Taxonomies == {None, Dict(<<>>), Dict(CustomKeywords)}

ClusterItemPool ==
    { [title |-> Str(<<"c", "o", "m", "p", "l", "i", "a", "n", "c", "e">>)],
      [title |-> Str(<<"A", "g", "e", "n", "t", "i", "c">>), content |-> Str(<<"a", "u", "d", "i",
          "t">>)],
      [title |-> Str(<<"a", "u", "d", "i", "t">>), content |-> Str(<<"G", "D", "P", "R", " ", "N",
          "I", "S", "T">>)],
      [title |-> Str(<<"s", "h", "a", "d", "o", "w">>), content |-> Str(<<"A", "I">>)],
      [title |-> Str(<<"x", " ", "a", "g", "e", "n", "t">>)],
      [title |-> Str(<<"x">>)],
      [title |-> Str(<<"q">>), content |-> Str(<<>>)],
      [content |-> Str(<<"H", "I", "T", "L">>)],
      [title |-> None, content |-> Str(<<"a", "g", "e", "n", "t">>)],
      [title |-> Str(<<"a", "g", "e", "n", "t">>), content |-> PyInt(<<"7">>)],
      EmptyDict }

ClusterLists(n) == UNION {[1..k -> ClusterItemPool] : k \in 0..n}

InitCluster ==
    /\ phase = "cluster_items"
    /\ taxonomy \in Taxonomies
    /\ cluster_items \in ClusterLists(MaxClusterItems)
    /\ find_result = [k |-> 0, outcome |-> Returned(<<>>)]
    /\ clustered = Returned(<<>>)
    /\ reclustered = Returned(<<>>)
    /\ DedupIdle
    /\ NormalizeIdle
    /\ ScoreIdle
    /\ WeightsIdle
    /\ SummarizeIdle
    /\ MainIdle

\* Clustering(taxonomy).find_cluster(cluster_items[k])
FindCluster(k) ==
    /\ phase = "cluster_items"
    /\ phase' = "found"
    /\ find_result' = [k |-> k,
                       outcome |-> find_cluster(cluster_items[k],
                                                Clustering_init(taxonomy))]
    /\ UNCHANGED <<taxonomy, cluster_items, clustered, reclustered>>
    /\ UNCHANGED <<dedup_vars, norm_vars, score_vars, weights_vars, summ_vars, main_vars>>

\* Clustering(taxonomy).cluster(cluster_items)
Cluster ==
    /\ phase = "cluster_items"
    /\ phase' = "clustered"
    /\ clustered' = Returned(cluster(cluster_items, Clustering_init(taxonomy)))
    /\ UNCHANGED <<taxonomy, cluster_items, find_result, reclustered>>
    /\ UNCHANGED <<dedup_vars, norm_vars, score_vars, weights_vars, summ_vars, main_vars>>

\* cluster once more, on the items the first call returned
ClusterAgain ==
    /\ phase = "clustered"
    /\ phase' = "reclustered"
    /\ reclustered' = Returned(cluster(clustered.value, Clustering_init(taxonomy)))
    /\ UNCHANGED <<taxonomy, cluster_items, find_result, clustered>>
    /\ UNCHANGED <<dedup_vars, norm_vars, score_vars, weights_vars, summ_vars, main_vars>>

NextCluster ==
    \/ \E k \in 1..Len(cluster_items) : FindCluster(k)
    \/ Cluster
    \/ ClusterAgain

SpecCluster == InitCluster /\ [][NextCluster]_vars

----------------------------------------------------------------------------
(* The dimension scorers: values they share *)

\* float(n) for a whole number n
PyFloat(n) == [ty |-> "float", v |-> n]

\* min(a, b)
min(a, b) == IF a <= b THEN a ELSE b

\* x[:50] is defined for a str; None and an int are not subscriptable
Subscriptable(x) == x.ty = "str"

\* f"{title} {content}"
text_of(item) ==
    format(Get(item, "title", Str(<<>>))) \o <<" ">> \o format(Get(item, "content", Str(<<>>)))

\* sum(1 for keyword in keyword_list if keyword in text)
count_in(keyword_list, text) ==
    Cardinality({k \in 1..Len(keyword_list) : In(keyword_list[k], text)})

----------------------------------------------------------------------------
(* RelevanceScorer *)

RelevanceScorer_default_keywords ==
    << [topic |-> "agentic", keyword_list |-> <<<<"a", "g", "e", "n", "t">>, <<"a", "g", "e", "n",
        "t", "i", "c">>, <<"t", "o", "o", "l", " ", "c", "a", "l", "l", "i", "n", "g">>>>],
       [topic |-> "prompt_injection", keyword_list |-> <<<<"p", "r", "o", "m", "p", "t", " ", "i",
           "n", "j", "e", "c", "t", "i", "o", "n">>, <<"j", "a", "i", "l", "b", "r", "e", "a",
               "k">>>>],
       [topic |-> "hitl", keyword_list |-> <<<<"h", "u", "m", "a", "n", "-", "i", "n", "-", "t",
           "h", "e", "-", "l", "o", "o", "p">>, <<"H", "I", "T", "L">>, <<"k", "i", "l", "l", " ",
               "s", "w", "i", "t", "c", "h">>>>],
       [topic |-> "observability", keyword_list |-> <<<<"o", "b", "s", "e", "r", "v", "a", "b",
           "i", "l", "i", "t", "y">>, <<"t", "r", "a", "c", "i", "n", "g">>, <<"a", "u", "d", "i",
               "t">>>>],
       [topic |-> "shadow_ai", keyword_list |-> <<<<"s", "h", "a", "d", "o", "w", " ", "A", "I">>,
           <<"g", "o", "v", "e", "r", "n", "a", "n", "c", "e">>>>] >>

\* _load_keywords: the topics of config.relevance_keywords whose entry is a
\* dict with 'keywords', or the default keywords when there is none
load_keywords(relevance_keywords) ==
    LET HasKeywords(entry) ==
            entry.config.ty = "dict" /\ "keywords" \in DOMAIN entry.config.v
        kept == SelectSeq(relevance_keywords, HasKeywords)
    IN IF Len(kept) > 0
       THEN [k \in 1..Len(kept) |->
                [topic |-> kept[k].topic, keyword_list |-> kept[k].config.v["keywords"]]]
       ELSE RelevanceScorer_default_keywords

\* the sum of a sequence of numbers
RECURSIVE sum(_)
sum(numbers) == IF numbers = <<>> THEN 0 ELSE Head(numbers) + sum(Tail(numbers))

\* count_keyword_matches, comparing the keywords as they are written
count_keyword_matches_exact(text, keywords) ==
    LET text_lower == lower(text)
    IN sum([k \in 1..Len(keywords) |-> count_in(keywords[k].keyword_list, text_lower)])

\* count_keyword_matches(text) of a RelevanceScorer with these keywords
count_keyword_matches(text, keywords) ==
    LET text_lower == lower(text)
    IN sum([k \in 1..Len(keywords) |-> count_matches(keywords[k].keyword_list, text_lower)])

\* RelevanceScorer.score(item); the debug message slices the title
RelevanceScorer_score(item, keywords) ==
    LET title == Get(item, "title", Str(<<>>))
        match_count == count_keyword_matches(text_of(item), keywords)
    IN IF ~Subscriptable(title) THEN Raised("TypeError")
       ELSE Returned(PyFloat(min(match_count * 10, 100)))

----------------------------------------------------------------------------
(* CredibilityScorer *)

TIER_SCORES ==
    << <<<<"h", "i", "g", "h">>, 100>>, <<<<"m", "e", "d", "i", "u", "m">>, 70>>, <<<<"l", "o",
        "w">>, 40>>, <<<<"u", "n", "k", "n", "o", "w", "n">>, 50>> >>

\* TIER_SCORES.get(tier, 50), with 'low' missing from the table
TIER_SCORES_get_without_low(tier) ==
    IF \E k \in {1, 2, 4} : TIER_SCORES[k][1] = tier
    THEN TIER_SCORES[CHOOSE k \in {1, 2, 4} : TIER_SCORES[k][1] = tier][2]
    ELSE 50

\* TIER_SCORES.get(tier, 50)
TIER_SCORES_get(tier) ==
    IF \E k \in 1..Len(TIER_SCORES) : TIER_SCORES[k][1] = tier
    THEN TIER_SCORES[CHOOSE k \in 1..Len(TIER_SCORES) : TIER_SCORES[k][1] = tier][2]
    ELSE 50

\* CredibilityScorer.score(item); .lower() raises on a tier that is not a str
CredibilityScorer_score(item) ==
    LET credibility_tier == Get(item, "credibility_tier", Str(<<"u", "n", "k", "n", "o", "w",
        "n">>))
    IN IF credibility_tier.ty # "str" THEN Raised("AttributeError")
       ELSE Returned(PyFloat(TIER_SCORES_get(SubSeq(lower(credibility_tier.v), 1,
                                                    Len(credibility_tier.v)))))

----------------------------------------------------------------------------
(* ImpactScorer *)

HIGH_IMPACT_KEYWORDS ==
    <<<<"c", "r", "i", "t", "i", "c", "a", "l">>, <<"s", "e", "v", "e", "r", "e">>, <<"z", "e",
        "r", "o", "-", "d", "a", "y">>, <<"w", "i", "d", "e", "s", "p", "r", "e", "a", "d">>,
            <<"e", "x", "p", "l", "o", "i", "t">>, <<"v", "u", "l", "n", "e", "r", "a", "b", "i",
                "l", "i", "t", "y">>, <<"b", "r", "e", "a", "c", "h">>, <<"C", "V", "E">>, <<"a",
                    "c", "t", "i", "v", "e", "l", "y", " ", "e", "x", "p", "l", "o", "i", "t", "e",
                        "d">>, <<"m", "a", "j", "o", "r">>, <<"e", "m", "e", "r", "g", "e", "n",
                            "c", "y">>, <<"u", "r", "g", "e", "n", "t">>>>

MEDIUM_IMPACT_KEYWORDS ==
    <<<<"m", "o", "d", "e", "r", "a", "t", "e">>, <<"i", "m", "p", "o", "r", "t", "a", "n", "t">>,
        <<"s", "i", "g", "n", "i", "f", "i", "c", "a", "n", "t">>, <<"n", "o", "t", "a", "b", "l",
            "e">>, <<"a", "f", "f", "e", "c", "t", "e", "d">>, <<"i", "m", "p", "a", "c", "t", "e",
                "d">>, <<"e", "x", "p", "o", "s", "u", "r", "e">>>>

\* count_impact_keywords(text): (high_count, medium_count); the keywords are
\* looked up in text.lower() as they are written
count_impact_keywords(text) ==
    LET text_lower == lower(text)
    IN [high_count |-> count_in(HIGH_IMPACT_KEYWORDS, text_lower),
        medium_count |-> count_in(MEDIUM_IMPACT_KEYWORDS, text_lower)]

\* ImpactScorer.score without the cap
ImpactScorer_score_uncapped(item) ==
    LET title == Get(item, "title", Str(<<>>))
        counts == count_impact_keywords(text_of(item))
    IN IF ~Subscriptable(title) THEN Raised("TypeError")
       ELSE Returned(PyFloat(counts.high_count * 20 + counts.medium_count * 10))

\* ImpactScorer.score(item); the debug message slices the title
ImpactScorer_score(item) ==
    LET title == Get(item, "title", Str(<<>>))
        counts == count_impact_keywords(text_of(item))
    IN IF ~Subscriptable(title) THEN Raised("TypeError")
       ELSE Returned(PyFloat(min(counts.high_count * 20 + counts.medium_count * 10, 100)))

----------------------------------------------------------------------------
(* PracticalityScorer *)

PRACTICAL_KEYWORDS ==
    <<<<"m", "i", "t", "i", "g", "a", "t", "i", "o", "n">>, <<"r", "e", "m", "e", "d", "i", "a",
        "t", "i", "o", "n">>, <<"f", "i", "x">>, <<"p", "a", "t", "c", "h">>, <<"s", "o", "l", "u",
            "t", "i", "o", "n">>, <<"r", "e", "c", "o", "m", "m", "e", "n", "d", "a", "t", "i",
                "o", "n">>, <<"b", "e", "s", "t", " ", "p", "r", "a", "c", "t", "i", "c", "e">>,
                    <<"h", "o", "w", " ", "t", "o">>, <<"g", "u", "i", "d", "e">>, <<"i", "m", "p",
                        "l", "e", "m", "e", "n", "t", "a", "t", "i", "o", "n">>, <<"d", "e", "f",
                            "e", "n", "s", "e">>, <<"p", "r", "e", "v", "e", "n", "t", "i", "o",
                                "n">>, <<"d", "e", "t", "e", "c", "t", "i", "o", "n">>, <<"r", "e",
                                    "s", "p", "o", "n", "s", "e">>, <<"c", "o", "n", "t", "r", "o",
                                        "l">>, <<"c", "o", "n", "f", "i", "g", "u", "r", "a", "t",
                                            "i", "o", "n">>, <<"s", "e", "t", "t", "i", "n", "g">>>>

\* count_practical_keywords, looking the keywords up in the text as it is
count_practical_keywords_exact(text) == count_in(PRACTICAL_KEYWORDS, text)

\* count_practical_keywords(text)
count_practical_keywords(text) == count_in(PRACTICAL_KEYWORDS, lower(text))

\* PracticalityScorer.score(item); the debug message slices the title
PracticalityScorer_score(item) ==
    LET title == Get(item, "title", Str(<<>>))
        practical_count == count_practical_keywords(text_of(item))
    IN IF ~Subscriptable(title) THEN Raised("TypeError")
       ELSE Returned(PyFloat(min(practical_count * 20, 100)))

----------------------------------------------------------------------------
(* FreshnessScorer *)

\* the number a year, month or day token of the model stands for
int(token) ==
    CASE token = "2023" -> 2023 [] token = "2024" -> 2024
      [] token = "01" -> 1 [] token = "02" -> 2 [] token = "04" -> 4
      [] token = "12" -> 12 [] token = "13" -> 13 [] token = "14" -> 14
      [] token = "15" -> 15 [] token = "16" -> 16 [] token = "21" -> 21
      [] token = "22" -> 22 [] token = "24" -> 24 [] token = "31" -> 31

\* the proleptic Gregorian ordinal of a date, as datetime computes it
is_leap(year) == year % 4 = 0 /\ (year % 100 # 0 \/ year % 400 = 0)

days_in_month(year, month) ==
    CASE month = 2 -> IF is_leap(year) THEN 29 ELSE 28
      [] month \in {4, 6, 9, 11} -> 30
      [] OTHER -> 31

days_before_year(year) ==
    LET y == year - 1
    IN y * 365 + (y \div 4) - (y \div 100) + (y \div 400)

RECURSIVE days_before_month(_, _)
days_before_month(year, month) ==
    IF month = 1 THEN 0
    ELSE days_before_month(year, month - 1) + days_in_month(year, month - 1)

toordinal(dt) ==
    days_before_year(int(dt.v[1]))
    + days_before_month(int(dt.v[1]), int(dt.v[2]))
    + int(dt.v[3])

\* datetime.now(): a date and the seconds since midnight
Clock(y, m, d, seconds) == [date |-> DateTime(y, m, d), seconds |-> seconds]

timedelta(days, seconds) == [days |-> days, seconds |-> seconds]

\* now - published_date, for a published_date at midnight
age_of(now_, published_date) ==
    timedelta(toordinal(now_.date) - toordinal(published_date), now_.seconds)

\* a < b for two timedelta
Less(a, b) == a.days < b.days \/ (a.days = b.days /\ a.seconds < b.seconds)

\* FreshnessScorer.parse_date(date_value): a datetime or None
parse_date(date_value_) ==
    IF ~Truthy(date_value_) \/ date_value_ = Str(NoDateAvailable) THEN None
    ELSE IF date_value_.ty = "datetime" THEN date_value_
    ELSE IF date_value_.ty = "str"
         THEN LET parsed == date_parser_parse(date_value_.v)
              IN IF parsed.raised THEN None ELSE parsed.value
    ELSE None

\* the chain of comparisons of score, with <= for <
age_score_inclusive(age) ==
    IF Less(age, timedelta(1, 0)) \/ age = timedelta(1, 0) THEN 100
    ELSE IF Less(age, timedelta(7, 0)) \/ age = timedelta(7, 0) THEN 90
    ELSE IF Less(age, timedelta(30, 0)) \/ age = timedelta(30, 0) THEN 70
    ELSE IF Less(age, timedelta(90, 0)) \/ age = timedelta(90, 0) THEN 50
    ELSE 30

\* the chain of comparisons of score (lines 69-78)
age_score(age) ==
    IF Less(age, timedelta(1, 0)) THEN 100
    ELSE IF Less(age, timedelta(7, 0)) THEN 90
    ELSE IF Less(age, timedelta(30, 0)) THEN 70
    ELSE IF Less(age, timedelta(90, 0)) THEN 50
    ELSE 30

\* FreshnessScorer.score(item) when datetime.now() gives now_; the debug
\* message slices the title
FreshnessScorer_score(item, now_) ==
    LET published_date == parse_date(Get(item, "published_date", None))
        title == Get(item, "title", Str(<<>>))
    IN IF published_date = None THEN Returned(PyFloat(50))
       ELSE IF ~Subscriptable(title) THEN Raised("TypeError")
       ELSE Returned(PyFloat(age_score(age_of(now_, published_date))))

----------------------------------------------------------------------------
(* The scorers: inputs and calls *)

\* config.relevance_keywords: nothing configured, or two topics with
\* keywords and one without
CustomTopics ==
    << [topic |-> "first",
        config |-> Dict([keywords |-> <<<<"a">>, <<"b">>, <<"c">>, <<"d">>, <<"e">>, <<"f">>>>])],
       [topic |-> "second", config |-> Str(<<"a">>)],
       [topic |-> "third",
        config |-> Dict([keywords |-> <<<<"A">>, <<"b">>, <<"c">>, <<"d">>, <<"e">>, <<"f">>>>])] >>

RelevanceConfigs == {<<>>, CustomTopics}

LastSecond == 86399    \* 23:59:59

Nows ==
    { Clock("2024", "01", "14", 0),
      Clock("2024", "01", "15", 0), Clock("2024", "01", "15", LastSecond),
      Clock("2024", "01", "16", 0), Clock("2024", "01", "21", LastSecond),
      Clock("2024", "01", "22", 0), Clock("2024", "02", "13", LastSecond),
      Clock("2024", "02", "14", 0), Clock("2024", "04", "13", LastSecond),
      Clock("2024", "04", "14", 0), Clock("2024", "04", "24", 0) }

TextItems ==
    { EmptyDict,
      [title |-> Str(<<"A", "g", "e", "n", "t", "i", "c">>), content |-> Str(<<"a", "u", "d", "i",
          "t", " ", "H", "I", "T", "L">>)],
      [title |-> Str(<<"a", "b", "c", "d", "e">>)],
      [title |-> Str(<<"A", "B", "C", "D", "E", "F">>), content |-> Str(<<"g", "o", "v", "e", "r",
          "n", "a", "n", "c", "e">>)],
      [title |-> Str(<<"a", "g", "e", "n", "t", "i", "c", " ", "t", "o", "o", "l", " ", "c", "a",
          "l", "l", "i", "n", "g", " ", "j", "a", "i", "l", "b", "r", "e", "a", "k", " ", "h", "i",
              "t", "l", " ", "k", "i", "l", "l", " ", "s", "w", "i", "t", "c", "h">>),
       content |-> Str(<<"p", "r", "o", "m", "p", "t", " ", "i", "n", "j", "e", "c", "t", "i", "o",
           "n", " ", "t", "r", "a", "c", "i", "n", "g", " ", "a", "u", "d", "i", "t", " ", "s",
               "h", "a", "d", "o", "w", " ", "a", "i", " ", "g", "o", "v", "e", "r", "n", "a", "n",
                   "c", "e">>)],
      [title |-> Str(<<"C", "V", "E">>), content |-> Str(<<>>)],
      [title |-> Str(<<"C", "r", "i", "t", "i", "c", "a", "l", " ", "Z", "e", "r", "o", "-", "D",
          "a", "y", " ", "E", "x", "p", "l", "o", "i", "t">>),
       content |-> Str(<<"v", "u", "l", "n", "e", "r", "a", "b", "i", "l", "i", "t", "y", " ", "b",
           "r", "e", "a", "c", "h", " ", "u", "r", "g", "e", "n", "t", " ", "m", "o", "d", "e",
               "r", "a", "t", "e">>)],
      [title |-> Str(<<"s", "e", "v", "e", "r", "e">>), content |-> Str(<<"n", "o", "t", "a", "b",
          "l", "e", " ", "e", "x", "p", "o", "s", "u", "r", "e">>)],
      [content |-> Str(<<"f", "i", "x", " ", "p", "a", "t", "c", "h", " ", "g", "u", "i", "d", "e",
          " ", "h", "o", "w", " ", "t", "o", " ", "c", "o", "n", "t", "r", "o", "l", " ", "s", "e",
              "t", "t", "i", "n", "g">>)],
      [title |-> Str(<<"F", "i", "x">>), content |-> Str(<<"p", "r", "e", "f", "i", "x", "e",
          "s">>)],
      [title |-> Str(<<"M", "i", "t", "i", "g", "a", "t", "i", "o", "n", " ", "G", "u", "i", "d",
          "e">>), content |-> Str(<<"f", "i", "x", " ", "d", "e", "f", "e", "n", "s", "e", " ",
              "r", "e", "s", "p", "o", "n", "s", "e">>)],
      [title |-> Str(<<"q">>)],
      [title |-> Str(<<"q">>), content |-> None],
      [title |-> Str(<<"q">>), content |-> PyInt(<<"7">>)],
      [title |-> None, content |-> Str(<<"a", "g", "e", "n", "t">>)],
      [title |-> PyInt(<<"7">>)] }

Tiers ==
    {Str(<<"h", "i", "g", "h">>), Str(<<"m", "e", "d", "i", "u", "m">>), Str(<<"l", "o", "w">>),
        Str(<<"u", "n", "k", "n", "o", "w", "n">>), Str(<<"H", "I", "G", "H">>),
     Str(<<"L", "o", "w">>), Str(<<"q">>), Str(<<>>), None, PyInt(<<"7">>)}

TierItems ==
    {[credibility_tier |-> t] : t \in Tiers}
    \cup {[credibility_tier |-> t, title |-> Str(<<"C", "V", "E">>)] : t \in {Str(<<"h", "i", "g",
        "h">>), Str(<<"l", "o", "w">>)}}

PublishedDates ==
    {Str(IsoDay), Str(<<"15", " ", "Jan", " ", "2024">>), DateTime("2024", "01", "15"),
     Str(NoDateAvailable), Str(<<"q">>), Str(<<>>), None, PyInt(<<"7">>)}

DateItems ==
    {[published_date |-> d] : d \in PublishedDates}
    \cup {[published_date |-> d, title |-> t] :
             d \in {Str(IsoDay), Str(NoDateAvailable)}, t \in {Str(<<"q">>), None}}

ScoreItems == TextItems \cup TierItems \cup DateItems

InitScore ==
    /\ phase = "score_item"
    /\ high_priority \in RelevanceConfigs
    /\ score_item \in ScoreItems
    /\ now \in Nows
    /\ score_result = [scorer |-> "", outcome |-> Returned(<<>>)]
    /\ DedupIdle
    /\ NormalizeIdle
    /\ ClusterIdle
    /\ WeightsIdle
    /\ SummarizeIdle
    /\ MainIdle

\* RelevanceScorer(config).score(score_item)
ScoreRelevance ==
    /\ phase = "score_item"
    /\ phase' = "scored"
    /\ score_result' =
           [scorer |-> "relevance",
            outcome |-> RelevanceScorer_score(score_item, load_keywords(high_priority))]
    /\ UNCHANGED <<high_priority, score_item, now>>
    /\ UNCHANGED <<dedup_vars, norm_vars, cluster_vars, weights_vars, summ_vars, main_vars>>

\* CredibilityScorer().score(score_item)
ScoreCredibility ==
    /\ phase = "score_item"
    /\ phase' = "scored"
    /\ score_result' = [scorer |-> "credibility",
                        outcome |-> CredibilityScorer_score(score_item)]
    /\ UNCHANGED <<high_priority, score_item, now>>
    /\ UNCHANGED <<dedup_vars, norm_vars, cluster_vars, weights_vars, summ_vars, main_vars>>

\* ImpactScorer().score(score_item)
ScoreImpact ==
    /\ phase = "score_item"
    /\ phase' = "scored"
    /\ score_result' = [scorer |-> "impact", outcome |-> ImpactScorer_score(score_item)]
    /\ UNCHANGED <<high_priority, score_item, now>>
    /\ UNCHANGED <<dedup_vars, norm_vars, cluster_vars, weights_vars, summ_vars, main_vars>>

\* FreshnessScorer().score(score_item), the clock reading now
ScoreFreshness ==
    /\ phase = "score_item"
    /\ phase' = "scored"
    /\ score_result' = [scorer |-> "freshness",
                        outcome |-> FreshnessScorer_score(score_item, now)]
    /\ UNCHANGED <<high_priority, score_item, now>>
    /\ UNCHANGED <<dedup_vars, norm_vars, cluster_vars, weights_vars, summ_vars, main_vars>>

\* PracticalityScorer().score(score_item)
ScorePracticality ==
    /\ phase = "score_item"
    /\ phase' = "scored"
    /\ score_result' = [scorer |-> "practicality",
                        outcome |-> PracticalityScorer_score(score_item)]
    /\ UNCHANGED <<high_priority, score_item, now>>
    /\ UNCHANGED <<dedup_vars, norm_vars, cluster_vars, weights_vars, summ_vars, main_vars>>

NextScore ==
    \/ ScoreRelevance
    \/ ScoreCredibility
    \/ ScoreImpact
    \/ ScoreFreshness
    \/ ScorePracticality

SpecScore == InitScore /\ [][NextScore]_vars

----------------------------------------------------------------------------
(* ScoreWeights and Config.scoring_weights                                 *)
(* A weight is a float written in hundredths: Weight(35) is 0.35.  A       *)
(* dimension score is a whole float, so a weighted sum is a float written  *)
(* in hundredths of a point: Weighted(10000) is 100.0.  The rounding of    *)
(* the binary floats (below 1e-13 for these values) is left out; weight    *)
(* totals within a hundredth of the 0.01 tolerance, where that rounding    *)
(* decides, are not among the configurations.                              *)

Weight(h) == [ty |-> "float", v |-> h]
Weighted(h) == [ty |-> "float", v |-> h]

\* the hardcoded weights, of Config.scoring_weights and of _load_weights
default_weights ==
    [relevance |-> Weight(35), credibility |-> Weight(25), impact |-> Weight(15),
     freshness |-> Weight(15), practicality |-> Weight(10)]

\* Config.scoring_weights, dimensions being scoring_config.get('dimensions', {}):
\* val.get('weight', 0.0) of every dimension; a val that is no dict has no get
scoring_weights(dims) ==
    IF DOMAIN dims # {}
    THEN IF \E key \in DOMAIN dims : dims[key].ty # "dict"
         THEN Raised("AttributeError")
         ELSE Returned([key \in DOMAIN dims |-> Get(dims[key].v, "weight", Weight(0))])
    ELSE Returned(default_weights)

\* sum(weights.values()) for numbers
RECURSIVE sum_values(_, _)
sum_values(weights, keys) ==
    IF keys = {} THEN 0
    ELSE LET key == CHOOSE key \in keys : TRUE
         IN weights[key].v + sum_values(weights, keys \ {key})

\* abs(x)
abs(x) == IF x < 0 THEN -x ELSE x

\* ScoreWeights._load_weights: the weights, and what was logged.  A weight
\* that is no number makes sum() raise TypeError.
load_weights_rejecting(dims) ==
    LET got == scoring_weights(dims)
    IN IF got.raised \/ \E key \in DOMAIN got.value : got.value[key].ty # "float"
       THEN [weights |-> default_weights, warning |-> FALSE, error |-> TRUE]
       ELSE LET total == sum_values(got.value, DOMAIN got.value)
            IN IF abs(total - 100) > 1
               THEN [weights |-> default_weights, warning |-> TRUE, error |-> FALSE]
               ELSE [weights |-> got.value, warning |-> FALSE, error |-> FALSE]

load_weights(dims) ==
    LET got == scoring_weights(dims)
    IN IF got.raised \/ \E key \in DOMAIN got.value : got.value[key].ty # "float"
       THEN [weights |-> default_weights, warning |-> FALSE, error |-> TRUE]
       ELSE LET total == sum_values(got.value, DOMAIN got.value)
            IN [weights |-> got.value, warning |-> abs(total - 100) > 1, error |-> FALSE]

\* ScoreWeights.get_weight
get_weight_or_one(weights, dimension) == Get(weights, dimension, Weight(100))

get_weight(weights, dimension) == Get(weights, dimension, Weight(0))

\* weighted_sum += weight * score over scores.items()
RECURSIVE weighted_sum(_, _, _)
weighted_sum(weights, scores, keys) ==
    IF keys = {} THEN 0
    ELSE LET dimension == CHOOSE dimension \in keys : TRUE
         IN get_weight(weights, dimension).v * scores[dimension].v
              + weighted_sum(weights, scores, keys \ {dimension})

\* ScoreWeights.calculate_weighted_score
calculate_weighted_score(weights, scores) ==
    Weighted(weighted_sum(weights, scores, DOMAIN scores))

----------------------------------------------------------------------------
(* ScoreWeights: configurations, scores and calls *)

DIMENSIONS == {"relevance", "credibility", "impact", "freshness", "practicality"}

\* the 'dimensions' of scoring_weights.yaml whose every weight is h hundredths
EachWeighing(keys, h) == [key \in keys |-> Dict([weight |-> Weight(h)])]

DimensionConfigs ==
    { EmptyDict,
      [key \in DIMENSIONS |-> Dict([weight |-> default_weights[key]])],
      EachWeighing({"relevance", "credibility"}, 100),
      EachWeighing({"relevance"}, 50),
      [key \in DIMENSIONS \cup {"novelty"} |->
          Dict([weight |-> IF key = "novelty" THEN Weight(2) ELSE default_weights[key]])],
      [key \in DIMENSIONS |->
          Dict([weight |-> IF key = "practicality" THEN Weight(8) ELSE default_weights[key]])],
      [relevance |-> Dict([weight |-> Weight(-50)]),
       credibility |-> Dict([weight |-> Weight(150)])],
      [relevance |-> Dict([weight |-> Weight(100)]), credibility |-> Dict(EmptyDict)],
      [relevance |-> Dict([weight |-> Str(<<"h", "i", "g", "h">>)]),
       credibility |-> Dict([weight |-> Weight(50)])],
      [relevance |-> Dict([weight |-> None]), credibility |-> Dict([weight |-> Weight(100)])],
      [relevance |-> Weight(50), credibility |-> Weight(50)] }

\* what the five scorers can hand over, a dimension the weights may not know,
\* and the partial scores of the tests
ScoreDicts ==
    [DIMENSIONS -> {PyFloat(0), PyFloat(100)}]
      \cup { [key \in DIMENSIONS |-> PyFloat(n)] : n \in {40, 50, 70} }
      \cup { [relevance |-> PyFloat(50), credibility |-> PyFloat(50)],
             [relevance |-> PyFloat(100), novelty |-> PyFloat(100)],
             EmptyDict }

InitWeights ==
    /\ phase = "configured"
    /\ dimensions \in DimensionConfigs
    /\ loaded = NoWeights
    /\ dimension_scores \in ScoreDicts
    /\ weighted_score = None
    /\ DedupIdle
    /\ NormalizeIdle
    /\ ClusterIdle
    /\ ScoreIdle
    /\ SummarizeIdle
    /\ MainIdle

\* ScoreWeights(config): __init__ calls _load_weights
LoadWeights ==
    /\ phase = "configured"
    /\ phase' = "weights_loaded"
    /\ loaded' = load_weights(dimensions)
    /\ UNCHANGED <<dimensions, dimension_scores, weighted_score>>
    /\ UNCHANGED <<dedup_vars, norm_vars, cluster_vars, score_vars, summ_vars, main_vars>>

\* score_weights.calculate_weighted_score(dimension_scores)
CalculateWeightedScore ==
    /\ phase = "weights_loaded"
    /\ phase' = "weighted"
    /\ weighted_score' = calculate_weighted_score(loaded.weights, dimension_scores)
    /\ UNCHANGED <<dimensions, loaded, dimension_scores>>
    /\ UNCHANGED <<dedup_vars, norm_vars, cluster_vars, score_vars, summ_vars, main_vars>>

NextWeights ==
    \/ LoadWeights
    \/ CalculateWeightedScore

SpecWeights == InitWeights /\ [][NextWeights]_vars

----------------------------------------------------------------------------
(* FallbackSummarizer *)

SentenceEnds == {".", "!", "?"}

\* the places where _extract_first_sentences closes a sentence after the
\* place `from`: a '.', '!' or '?' that makes the current piece longer than 20
sentence_breaks(text, from) ==
    {k \in (from + 1)..Len(text) : text[k] \in SentenceEnds /\ k - from > 20}

least(places) == CHOOSE k \in places : \A l \in places : k <= l

\* _extract_first_sentences(text, 2) for a str
extract_first_sentences(text) ==
    IF text = <<>> THEN <<"N", "o", " ", "c", "o", "n", "t", "e", "n", "t", " ", "a", "v", "a",
        "i", "l", "a", "b", "l", "e">>
    ELSE LET first == sentence_breaks(text, 0)
         IN IF first = {}
            THEN IF Len(text) > 200 THEN SubSeq(text, 1, 200) \o <<".", ".", ".">> ELSE text
            ELSE LET b1 == least(first)
                     second == sentence_breaks(text, b1)
                 IN IF second = {} THEN strip(SubSeq(text, 1, b1))
                    ELSE strip(SubSeq(text, 1, b1)) \o <<" ">>
                           \o strip(SubSeq(text, b1 + 1, least(second)))

\* FallbackSummarizer.summarize(item): a content that is false gives "No
\* content available", another content that is no str cannot be iterated,
\* and the log message slices the title
FallbackSummarizer_summarize(item) ==
    LET title == Get(item, "title", Str(<<"U", "n", "t", "i", "t", "l", "e", "d">>))
        content == Get(item, "content", Str(<<>>))
        source == Get(item, "source", Str(<<"U", "n", "k", "n", "o", "w", "n">>))
    IN IF Truthy(content) /\ content.ty # "str" THEN Raised("TypeError")
       ELSE IF ~Subscriptable(title) THEN Raised("TypeError")
       ELSE Returned(Dict(
                [summary |-> Str(IF Truthy(content) THEN extract_first_sentences(content.v)
                                 ELSE <<"N", "o", " ", "c", "o", "n", "t", "e", "n", "t", " ", "a",
                                     "v", "a", "i", "l", "a", "b", "l", "e">>),
                 why_it_matters |-> Str(<<"A", "I", " ", "s", "e", "c", "u", "r", "i", "t", "y",
                     " ", "u", "p", "d", "a", "t", "e", " ", "f", "r", "o", "m",
                         " ">> \o format(source)),
                 practical_mitigation |->
                     Str(<<"D", "e", "t", "a", "i", "l", "s", " ", "l", "i", "m", "i", "t", "e",
                         "d", " ", "-", " ", "r", "e", "v", "i", "e", "w", " ", "f", "u", "l", "l",
                             " ", "a", "r", "t", "i", "c", "l", "e", " ", "f", "o", "r", " ", "m",
                                 "i", "t", "i", "g", "a", "t", "i", "o", "n", " ", "g", "u", "i",
                                     "d", "a", "n", "c", "e">>)]))

----------------------------------------------------------------------------
(* LLMSummarizer: what Ollama answers is written in tokens, a token being a *)
(* piece of text, a brace or a "key": "value" member of a JSON object.      *)

Text(s) == [tok |-> "text", value |-> s]
Open == [tok |-> "{"]
Close == [tok |-> "}"]
Member(key, value) == [tok |-> "member", key |-> key, value |-> Str(value)]

\* json.loads of the tokens: an object is a brace, members and a brace
json_loads(json_str) ==
    IF /\ Len(json_str) >= 2
       /\ json_str[1] = Open
       /\ json_str[Len(json_str)] = Close
       /\ \A k \in 2..(Len(json_str) - 1) : json_str[k].tok = "member"
    THEN LET keys == {json_str[k].key : k \in 2..(Len(json_str) - 1)}
             last(key) == CHOOSE k \in 2..(Len(json_str) - 1) :
                              /\ json_str[k].key = key
                              /\ \A l \in (k + 1)..(Len(json_str) - 1) : json_str[l].key # key
         IN Returned(Dict([key \in keys |-> json_str[last(key)].value]))
    ELSE Raised("JSONDecodeError")

\* LLMSummarizer._parse_json_response(response): a dict or None
parse_json_response(response) ==
    LET opens == {k \in 1..Len(response) : response[k] = Open}
        closes == {k \in 1..Len(response) : response[k] = Close}
    IN IF opens # {} /\ closes # {}
          /\ (CHOOSE k \in closes : \A l \in closes : l <= k) > least(opens)
       THEN LET parsed == json_loads(SubSeq(response, least(opens),
                                            CHOOSE k \in closes : \A l \in closes : l <= k))
            IN IF parsed.raised THEN None ELSE parsed.value
       ELSE None

\* len(x) is defined for a str
HasLen(x) == x.ty = "str"

SUMMARY_FIELDS == {"summary", "why_it_matters", "practical_mitigation"}

\* LLMSummarizer.summarize(item), response being what _call_ollama returns
\* for the prompt: the text of the answer, or None
LLMSummarizer_summarize(item, response) ==
    LET title == Get(item, "title", Str(<<"U", "n", "t", "i", "t", "l", "e", "d">>))
        content == Get(item, "content", Str(<<>>))
        parsed == parse_json_response(response.v)
    IN IF ~HasLen(content) THEN Raised("TypeError")
       ELSE IF ~Subscriptable(title) THEN Raised("TypeError")
       ELSE IF ~Truthy(response) THEN Returned(None)
       ELSE IF ~Truthy(parsed) THEN Returned(None)
       ELSE IF SUMMARY_FIELDS \subseteq DOMAIN parsed.v THEN Returned(parsed)
       ELSE Returned(None)

----------------------------------------------------------------------------
(* SummarizerFactory *)

\* summarize of a factory that asks the LLM whenever it is available
SummarizerFactory_summarize_eager(item, prefer_llm_, llm_available_, response) ==
    IF llm_available_
    THEN LET result == LLMSummarizer_summarize(item, response)
         IN IF result.raised THEN result
            ELSE IF Truthy(result.value) THEN result
            ELSE FallbackSummarizer_summarize(item)
    ELSE FallbackSummarizer_summarize(item)

\* SummarizerFactory.summarize(item); llm_available is what is_available()
\* returned at construction
SummarizerFactory_summarize(item, prefer_llm_, llm_available_, response) ==
    IF prefer_llm_ /\ llm_available_
    THEN LET result == LLMSummarizer_summarize(item, response)
         IN IF result.raised THEN result
            ELSE IF Truthy(result.value) THEN result
            ELSE FallbackSummarizer_summarize(item)
    ELSE FallbackSummarizer_summarize(item)

\* the three fields summarize_batch sets on an item
with_summary(item, summary_, why_it_matters, practical_mitigation) ==
    SetItem(SetItem(SetItem(item, "summary", summary_), "why_it_matters", why_it_matters),
            "practical_mitigation", practical_mitigation)

\* the loop of summarize_batch; responses[k] is Ollama's answer for items[k]
RECURSIVE summarize_loop(_, _, _, _, _, _)
summarize_loop(list, responses, k, summarized_items, prefer_llm_, llm_available_) ==
    IF k > Len(list) THEN summarized_items
    ELSE LET outcome ==
                 SummarizerFactory_summarize(list[k], prefer_llm_, llm_available_, responses[k])
             item == IF outcome.raised
                     THEN with_summary(list[k], Str(<<"S", "u", "m", "m", "a", "r", "i", "z", "a",
                         "t", "i", "o", "n", " ", "f", "a", "i", "l", "e", "d">>), Str(<<"N", "/",
                             "A">>),
                                       Str(<<"N", "/", "A">>))
                     ELSE with_summary(list[k],
                                       Get(outcome.value.v, "summary", Str(<<>>)),
                                       Get(outcome.value.v, "why_it_matters", Str(<<>>)),
                                       Get(outcome.value.v, "practical_mitigation", Str(<<>>)))
         IN summarize_loop(list, responses, k + 1, Append(summarized_items, item),
                           prefer_llm_, llm_available_)

summarize_batch(list, responses, prefer_llm_, llm_available_) ==
    summarize_loop(list, responses, 1, <<>>, prefer_llm_, llm_available_)

----------------------------------------------------------------------------
(* SummarizerFactory: items, answers of Ollama and calls *)

Sentence(c, end) == Rep(c, 20) \o <<end>>

LLMResult ==
    <<Member("summary", <<"L", "L", "M", " ", "s", "u", "m", "m", "a", "r", "y">>),
        Member("why_it_matters", <<"L", "L", "M", " ", "m", "a", "t", "t", "e", "r", "s">>),
      Member("practical_mitigation", <<"L", "L", "M", " ", "m", "i", "t", "i", "g", "a", "t", "i",
          "o", "n">>)>>

\* what _call_ollama returns
NoAnswer == None
EmptyAnswer == Str(<<>>)
GoodAnswer == Str(<<Text(<<"S", "u", "r", "e", ":">>), Open>> \o LLMResult \o <<Close>>)
AnswerMissingFields == Str(<<Open, Member("summary", <<"L", "L", "M", " ", "s", "u", "m", "m", "a",
    "r", "y">>), Close>>)
TwoObjects == Str(<<Open>> \o LLMResult \o <<Close, Text(<<"o", "r">>), Open, Close>>)
NoJson == Str(<<Text(<<"I", " ", "c", "a", "n", "n", "o", "t">>)>>)
EmptyObject == Str(<<Open, Close>>)
BracesReversed == Str(<<Close, Text(<<"x">>), Open>>)

TestItem == [title |-> Str(<<"T", "e", "s", "t">>), content |-> Str(<<"T", "e", "s", "t", " ", "c",
    "o", "n", "t", "e", "n", "t", " ", "h", "e", "r", "e", ".">>),
             source |-> Str(<<"T", "e", "s", "t">>)]
TwoSentences ==
    [title |-> Str(<<"T">>), source |-> Str(<<"S">>),
     content |-> Str(Sentence("a", ".") \o <<" ">> \o Sentence("b", "!") \o <<" ", "c", "?">>)]
NoneTitle == [title |-> None, content |-> Str(<<"x", ".">>), source |-> Str(<<"S">>)]
NoneContent == [content |-> None, source |-> None]
LongContent == [title |-> Str(<<"L">>), content |-> Str(Rep("a", 201))]

\* an item and what Ollama answers when asked about it
Asked(item, response) == [item |-> item, response |-> response]

Requests ==
    { Asked(TestItem, GoodAnswer), Asked(TestItem, NoAnswer),
      Asked(TestItem, AnswerMissingFields), Asked(TwoSentences, TwoObjects),
      Asked(TwoSentences, EmptyObject), Asked(TwoSentences, EmptyAnswer),
      Asked(NoneTitle, GoodAnswer), Asked(NoneContent, GoodAnswer),
      Asked(NoneContent, NoAnswer), Asked(LongContent, NoJson),
      Asked(EmptyDict, BracesReversed) }

RequestLists == UNION {[1..n -> Requests] : n \in 0..MaxSummarized}

InitSummarize ==
    /\ phase = "to_summarize"
    /\ prefer_llm \in BOOLEAN
    /\ llm_available \in BOOLEAN
    /\ \E l \in RequestLists :
          /\ to_summarize = [k \in 1..Len(l) |-> l[k].item]
          /\ ollama_responses = [k \in 1..Len(l) |-> l[k].response]
    /\ summarize_result = NoSummary
    /\ batch_summarized = <<>>
    /\ DedupIdle
    /\ NormalizeIdle
    /\ ClusterIdle
    /\ ScoreIdle
    /\ WeightsIdle
    /\ MainIdle

\* factory.summarize(to_summarize[k])
Summarize(k) ==
    /\ phase = "to_summarize"
    /\ k \in 1..Len(to_summarize)
    /\ phase' = "summary_returned"
    /\ summarize_result' =
           [k |-> k,
            outcome |-> SummarizerFactory_summarize(to_summarize[k], prefer_llm, llm_available,
                                                    ollama_responses[k])]
    /\ UNCHANGED <<prefer_llm, llm_available, to_summarize, ollama_responses, batch_summarized>>
    /\ UNCHANGED <<dedup_vars, norm_vars, cluster_vars, score_vars, weights_vars, main_vars>>

\* factory.summarize_batch(to_summarize)
SummarizeBatch ==
    /\ phase = "to_summarize"
    /\ phase' = "batch_summarized"
    /\ batch_summarized' =
           summarize_batch(to_summarize, ollama_responses, prefer_llm, llm_available)
    /\ UNCHANGED <<prefer_llm, llm_available, to_summarize, ollama_responses, summarize_result>>
    /\ UNCHANGED <<dedup_vars, norm_vars, cluster_vars, score_vars, weights_vars, main_vars>>

NextSummarize ==
    \/ \E k \in 1..MaxSummarized : Summarize(k)
    \/ SummarizeBatch

SpecSummarize == InitSummarize /\ [][NextSummarize]_vars

----------------------------------------------------------------------------
(* RSSFetcher: a feed is what feedparser.parse(url) gives, its entries      *)
(* being dicts; published_parsed and updated_parsed are times at midnight.  *)

List(l) == [ty |-> "list", v |-> l]

\* the time of day of datetime.isoformat(), for the two times of the clocks
time_of_day(seconds) ==
    IF seconds = 0 THEN <<"00", ":", "00", ":", "00">> ELSE <<"23", ":", "59", ":", "59">>

\* datetime.now().isoformat()
now_isoformat(clock) ==
    <<clock.date.v[1], "-", clock.date.v[2], "-", clock.date.v[3], "T">>
      \o time_of_day(clock.seconds)

\* RSSFetcher._parse_entry(entry) of the fetcher of source_config
parse_entry(entry, source_config, clock) ==
    LET published_parsed == Get(entry, "published_parsed", None)
        updated_parsed == Get(entry, "updated_parsed", None)
        authors == Get(entry, "authors", <<>>)
    IN [title |-> Get(entry, "title", Str(<<"U", "n", "t", "i", "t", "l", "e", "d">>)),
        url |-> Get(entry, "link", Str(<<>>)),
        content |-> Get(entry, "summary", Str(<<>>)),
        pub_date |-> IF Truthy(published_parsed) THEN Str(isoformat(published_parsed))
                     ELSE IF Truthy(updated_parsed) THEN Str(isoformat(updated_parsed))
                     ELSE None,
        source |-> Get(source_config, "name", Str(<<"U", "n", "k", "n", "o", "w", "n">>)),
        source_url |-> Get(source_config, "url", None),
        authors |-> List([k \in 1..Len(authors) |-> Get(authors[k], "name", Str(<<"U", "n", "k",
            "n", "o", "w", "n">>))]),
        fetched_date |-> Str(now_isoformat(clock))]

\* RSSFetcher(source_config).fetch(), feed being how feedparser.parse ends
fetch(source_config, feed, clock) ==
    IF ~Truthy(Get(source_config, "url", None)) THEN <<>>
    ELSE IF feed.raised THEN <<>>
    ELSE [k \in 1..Len(feed.value) |-> parse_entry(feed.value[k], source_config, clock)]

----------------------------------------------------------------------------
(* Parser, for contents without entities, comments, script and style *)

\* the character at place k is part of a tag
in_tag(html_content, k) ==
    \E i \in 1..k : html_content[i] = "<" /\ \A j \in i..(k - 1) : html_content[j] # ">"

\* soup.get_text(separator=' '): the text between the tags, the pieces apart
get_text(html_content) ==
    [k \in 1..Len(html_content) |->
        IF in_tag(html_content, k) THEN " " ELSE html_content[k]]

\* ' '.join(text.split())
RECURSIVE collapse(_)
collapse(text) ==
    IF text = <<>> THEN <<>>
    ELSE IF IsSpace(Head(text))
         THEN IF Tail(text) = <<>> \/ IsSpace(text[2]) THEN collapse(Tail(text))
              ELSE <<" ">> \o collapse(Tail(text))
    ELSE <<Head(text)>> \o collapse(Tail(text))

\* Parser.parse_html(html_content)
parse_html(html_content) ==
    IF html_content = <<>> THEN <<>>
    ELSE lstrip(collapse(SubSeq(get_text(html_content), 1, Len(html_content))))

\* Parser.parse(content)
parse(content) ==
    IF ~Truthy(content) THEN Str(<<>>) ELSE Str(parse_html(content.v))

----------------------------------------------------------------------------
(* main: the stages of the pipeline.  The dicts normalize_batch creates     *)
(* are kept in main_items, in the order of normalized_items; the lists of   *)
(* the later stages hold the same dicts and are kept as their places in     *)
(* main_items, so that a stage that sets a field of a dict changes it in    *)
(* every list.  The files of the output generators are left out.            *)

TOP_ITEMS == 20

\* the places in list of the objects, which are in list in this order
RECURSIVE places_of(_, _, _)
places_of(objects, list, from) ==
    IF objects = <<>> THEN <<>>
    ELSE LET place == least({q \in from..Len(list) : list[q] = Head(objects)})
         IN <<place>> \o places_of(Tail(objects), list, place + 1)

\* the dicts at these places
at_places(list, places) == [k \in 1..Len(places) |-> list[places[k]]]

\* the list with changed[k] at places[k]
put_at_places(list, places, changed) ==
    [p \in 1..Len(list) |->
        IF \E k \in 1..Len(places) : places[k] = p
        THEN changed[CHOOSE k \in 1..Len(places) : places[k] = p]
        ELSE list[p]]

\* lines 46-51: every source of type rss is fetched, in the order of the
\* configuration
RECURSIVE fetch_all(_, _, _, _)
fetch_all(sources, k, feeds, clock) ==
    IF k > Len(sources) THEN <<>>
    ELSE IF Get(sources[k], "type", None) = Str(<<"r", "s", "s">>)
         THEN fetch(sources[k], feeds[Get(sources[k], "url", None)], clock)
                \o fetch_all(sources, k + 1, feeds, clock)
    ELSE fetch_all(sources, k + 1, feeds, clock)

\* lines 63-65: item['content'] = parser.parse(item.get('content', ''))
parse_all(list) ==
    [k \in 1..Len(list) |->
        SetItem(list[k], "content", parse(Get(list[k], "content", Str(<<>>))))]

\* lines 90-98 for one item: the five scores and the final score, or the
\* exception of the first scorer that raises
score_item_of_main(item, keywords, weights, clock) ==
    LET relevance == RelevanceScorer_score(item, keywords)
        credibility == CredibilityScorer_score(item)
        impact == ImpactScorer_score(item)
        freshness == FreshnessScorer_score(item, clock)
        practicality == PracticalityScorer_score(item)
    IN IF relevance.raised THEN relevance
       ELSE IF credibility.raised THEN credibility
       ELSE IF impact.raised THEN impact
       ELSE IF freshness.raised THEN freshness
       ELSE IF practicality.raised THEN practicality
       ELSE LET scores == [relevance |-> relevance.value, credibility |-> credibility.value,
                           impact |-> impact.value, freshness |-> freshness.value,
                           practicality |-> practicality.value]
            IN Returned(SetItem(SetItem(item, "scores", Dict(scores)), "final_score",
                                calculate_weighted_score(weights, scores)))

\* sorted(..., reverse=True) putting equal keys in the reverse of their order
sorted_unstable(places, list) ==
    LET key(p) == list[p]["final_score"].v
        rank(k) == Cardinality({l \in 1..Len(places) : key(places[l]) > key(places[k])})
                     + Cardinality({l \in (k + 1)..Len(places) :
                                       key(places[l]) = key(places[k])})
                     + 1
    IN [r \in 1..Len(places) |-> places[CHOOSE k \in 1..Len(places) : rank(k) = r]]

\* sorted(clustered_items, key=lambda x: x['final_score'], reverse=True): the
\* sort is stable, equal keys stay in their order
sorted(places, list) ==
    LET key(p) == list[p]["final_score"].v
        rank(k) == Cardinality({l \in 1..Len(places) : key(places[l]) > key(places[k])})
                     + Cardinality({l \in 1..(k - 1) : key(places[l]) = key(places[k])})
                     + 1
    IN [r \in 1..Len(places) |-> places[CHOOSE k \in 1..Len(places) : rank(k) = r]]

\* ranked_items[:20], without the bound
top_items_all(ranked_items) == ranked_items

\* ranked_items[:20]
top_items(ranked_items) == SubSeq(ranked_items, 1, min(TOP_ITEMS, Len(ranked_items)))

----------------------------------------------------------------------------
(* main: configurations, feeds and stages *)

SourceA == [name |-> Str(<<"A">>), type |-> Str(<<"r", "s", "s">>), url |-> Str(<<"a">>),
            credibility_tier |-> Str(<<"h", "i", "g", "h">>)]
SourceB == [name |-> Str(<<"B">>), type |-> Str(<<"r", "s", "s">>), url |-> Str(<<"b">>),
            credibility_tier |-> Str(<<"l", "o", "w">>)]
SourceWeb == [name |-> Str(<<"W">>), type |-> Str(<<"w", "e", "b">>), url |-> Str(<<"a">>),
              credibility_tier |-> Str(<<"m", "e", "d", "i", "u", "m">>)]
SourceNoUrl == [name |-> Str(<<"N">>), type |-> Str(<<"r", "s", "s">>),
    credibility_tier |-> Str(<<"m", "e", "d", "i", "u", "m">>)]

SourceLists ==
    { <<>>, <<SourceA>>, <<SourceA, SourceB>>, <<SourceB, SourceA>>,
      <<SourceWeb, SourceB>>, <<SourceNoUrl, SourceA>> }

EntryExploit ==
    [title |-> Str(<<"A", "g", "e", "n", "t", " ", "e", "x", "p", "l", "o", "i", "t">>),
        link |-> Str(<<"l", "1">>),
     summary |-> Str(<<"<", "b", ">", "P", "a", "t", "c", "h", "<", "/", "b", ">", " ", "n", "o",
         "w">>),
     published_parsed |-> DateTime("2024", "01", "15"),
     authors |-> <<[name |-> Str(<<"A", "l">>)], EmptyDict>>]
EntryExploitAgain ==
    [title |-> Str(<<"a", "g", "e", "n", "t", " ", "E", "x", "p", "l", "o", "i", "t", " ">>),
        link |-> Str(<<"l", "2">>), summary |-> Str(<<"x">>),
     updated_parsed |-> DateTime("2023", "12", "31")]
EntryBare == [link |-> Str(<<"l", "3">>)]
EntryReview ==
    [title |-> Str(<<"R", "e", "v", "i", "e", "w">>), link |-> Str(<<"l", "4">>),
        summary |-> Str(<<" ", " ", "a", "u", "d", "i", "t", " ", " ", " ", "g", "u", "i", "d",
            "e", " ">>),
     published_parsed |-> DateTime("2024", "01", "15")]
EntryNoTitle == [title |-> Str(<<>>), link |-> Str(<<"l", "5">>), summary |-> Str(<<>>)]

\* an entry for each number, all with different titles
EntryNumbered(n) ==
    [title |-> Str(<<"n", "o", " ">> \o Rep("i", n)), link |-> Str(<<"l">>),
     summary |-> Str(<<>>)]

FeedsOfA ==
    { Returned(<<>>), Raised("URLError"), Returned(<<EntryExploit>>),
      Returned(<<EntryExploit, EntryExploitAgain>>), Returned(<<EntryBare, EntryReview>>),
      Returned(<<EntryReview, EntryNoTitle, EntryExploit>>) }

FeedsOfB ==
    { Returned(<<>>), Returned(<<EntryBare>>), Returned(<<EntryNoTitle, EntryExploitAgain>>) }

\* one entry more than main summarizes
LongFeed == Returned([n \in 1..(TOP_ITEMS + 1) |-> EntryNumbered(n)])

\* the dimensions of scoring_weights.yaml, whether Ollama is up and what it
\* answers
Environments ==
    { [dimensions |-> EmptyDict, available |-> FALSE, answer |-> NoAnswer],
      [dimensions |-> EmptyDict, available |-> TRUE, answer |-> GoodAnswer],
      [dimensions |-> EachWeighing({"relevance", "credibility", "freshness"}, 100),
       available |-> TRUE, answer |-> NoJson] }

InitMain ==
    /\ phase = "main_started"
    /\ \/ \E sources \in SourceLists, feed_a \in FeedsOfA, feed_b \in FeedsOfB,
            environment \in Environments :
            /\ main_config = [sources |-> sources, dimensions |-> environment.dimensions]
            /\ main_feeds = (Str(<<"a">>) :> feed_a) @@ (Str(<<"b">>) :> feed_b)
            /\ main_ollama = [available |-> environment.available,
                              answer |-> environment.answer]
       \/ /\ main_config = [sources |-> <<SourceA>>, dimensions |-> EmptyDict]
          /\ main_feeds = (Str(<<"a">>) :> LongFeed) @@ (Str(<<"b">>) :> Returned(<<>>))
          /\ main_ollama = [available |-> FALSE, answer |-> NoAnswer]
    /\ main_clock = Clock("2024", "01", "16", 0)
    /\ all_items = <<>>
    /\ main_items = <<>>
    /\ unique_places = <<>>
    /\ clustered_places = <<>>
    /\ ranked_places = <<>>
    /\ summarized_places = <<>>
    /\ main_result = NoStats
    /\ DedupIdle
    /\ NormalizeIdle
    /\ ClusterIdle
    /\ ScoreIdle
    /\ WeightsIdle
    /\ SummarizeIdle

\* lines 45-53
FetchContent ==
    /\ phase = "main_started"
    /\ phase' = "main_fetched"
    /\ all_items' = fetch_all(main_config.sources, 1, main_feeds, main_clock)
    /\ UNCHANGED <<main_config, main_feeds, main_ollama, main_clock, main_items, unique_places,
                   clustered_places, ranked_places, summarized_places, main_result>>
    /\ UNCHANGED <<dedup_vars, norm_vars, cluster_vars, score_vars, weights_vars, summ_vars>>

\* lines 62-65
ParseContent ==
    /\ phase = "main_fetched"
    /\ phase' = "main_parsed"
    /\ all_items' = parse_all(all_items)
    /\ UNCHANGED <<main_config, main_feeds, main_ollama, main_clock, main_items, unique_places,
                   clustered_places, ranked_places, summarized_places, main_result>>
    /\ UNCHANGED <<dedup_vars, norm_vars, cluster_vars, score_vars, weights_vars, summ_vars>>

\* lines 67-69
NormalizeItems ==
    /\ phase = "main_parsed"
    /\ phase' = "main_normalized"
    /\ main_items' = normalize_batch([k \in 1..Len(all_items) |-> Dict(all_items[k])])
    /\ UNCHANGED <<main_config, main_feeds, main_ollama, main_clock, all_items, unique_places,
                   clustered_places, ranked_places, summarized_places, main_result>>
    /\ UNCHANGED <<dedup_vars, norm_vars, cluster_vars, score_vars, weights_vars, summ_vars>>

\* lines 71-74
DeduplicateItems ==
    /\ phase = "main_normalized"
    /\ phase' = "main_deduplicated"
    /\ unique_places' =
           places_of(deduplicate(main_items, default_similarity_threshold).unique_items,
                     main_items, 1)
    /\ UNCHANGED <<main_config, main_feeds, main_ollama, main_clock, all_items, main_items,
                   clustered_places, ranked_places, summarized_places, main_result>>
    /\ UNCHANGED <<dedup_vars, norm_vars, cluster_vars, score_vars, weights_vars, summ_vars>>

\* lines 76-78
ClusterItems ==
    /\ phase = "main_deduplicated"
    /\ phase' = "main_clustered"
    /\ main_items' = put_at_places(main_items, unique_places,
                                   cluster(at_places(main_items, unique_places),
                                           Clustering_init(None)))
    /\ clustered_places' = unique_places
    /\ UNCHANGED <<main_config, main_feeds, main_ollama, main_clock, all_items, unique_places,
                   ranked_places, summarized_places, main_result>>
    /\ UNCHANGED <<dedup_vars, norm_vars, cluster_vars, score_vars, weights_vars, summ_vars>>

\* lines 80-98; main ends with the exception when a scorer raises
ScoreItems_ ==
    /\ phase = "main_clustered"
    /\ LET weights == load_weights(main_config.dimensions).weights
           scored == [k \in 1..Len(clustered_places) |->
                         score_item_of_main(main_items[clustered_places[k]],
                                            load_keywords(<<>>), weights, main_clock)]
       IN IF \E k \in 1..Len(scored) : scored[k].raised
          THEN /\ phase' = "main_raised"
               /\ UNCHANGED main_items
          ELSE /\ phase' = "main_scored"
               /\ main_items' = put_at_places(main_items, clustered_places,
                                              [k \in 1..Len(scored) |-> scored[k].value])
    /\ UNCHANGED <<main_config, main_feeds, main_ollama, main_clock, all_items, unique_places,
                   clustered_places, ranked_places, summarized_places, main_result>>
    /\ UNCHANGED <<dedup_vars, norm_vars, cluster_vars, score_vars, weights_vars, summ_vars>>

\* lines 100-102
SortItems ==
    /\ phase = "main_scored"
    /\ phase' = "main_ranked"
    /\ ranked_places' = sorted(clustered_places, main_items)
    /\ UNCHANGED <<main_config, main_feeds, main_ollama, main_clock, all_items, main_items,
                   unique_places, clustered_places, summarized_places, main_result>>
    /\ UNCHANGED <<dedup_vars, norm_vars, cluster_vars, score_vars, weights_vars, summ_vars>>

\* lines 104-109
SummarizeTopItems ==
    /\ phase = "main_ranked"
    /\ phase' = "main_summarized"
    /\ summarized_places' = top_items(ranked_places)
    /\ main_items' =
           put_at_places(main_items, top_items(ranked_places),
                         summarize_batch(at_places(main_items, top_items(ranked_places)),
                                         [k \in 1..Len(top_items(ranked_places)) |->
                                             main_ollama.answer],
                                         TRUE, main_ollama.available))
    /\ UNCHANGED <<main_config, main_feeds, main_ollama, main_clock, all_items, unique_places,
                   clustered_places, ranked_places, main_result>>
    /\ UNCHANGED <<dedup_vars, norm_vars, cluster_vars, score_vars, weights_vars, summ_vars>>

\* lines 111-145
ReturnStats ==
    /\ phase = "main_summarized"
    /\ phase' = "main_returned"
    /\ main_result' = [items_fetched |-> Len(all_items),
                       items_processed |-> Len(main_items),
                       items_unique |-> Len(unique_places),
                       items_scored |-> Len(ranked_places),
                       items_summarized |-> Len(summarized_places)]
    /\ UNCHANGED <<main_config, main_feeds, main_ollama, main_clock, all_items, main_items,
                   unique_places, clustered_places, ranked_places, summarized_places>>
    /\ UNCHANGED <<dedup_vars, norm_vars, cluster_vars, score_vars, weights_vars, summ_vars>>

NextMain ==
    \/ FetchContent
    \/ ParseContent
    \/ NormalizeItems
    \/ DeduplicateItems
    \/ ClusterItems
    \/ ScoreItems_
    \/ SortItems
    \/ SummarizeTopItems
    \/ ReturnStats

SpecMain == InitMain /\ [][NextMain]_vars

----------------------------------------------------------------------------
(* The whole model *)

Init == InitDedup \/ InitNormalize \/ InitCluster \/ InitScore \/ InitWeights
          \/ InitSummarize \/ InitMain
Next == NextDedup \/ NextNormalize \/ NextCluster \/ NextScore \/ NextWeights
          \/ NextSummarize \/ NextMain
Spec == Init /\ [][Next]_vars

----------------------------------------------------------------------------
(* Claims about the Deduplicator *)

Range(seq) == {seq[k] : k \in 1..Len(seq)}
PosIn(list, x) == CHOOSE k \in 1..Len(list) : list[k] = x
TitleOf(item) == IF "title" \in DOMAIN item THEN item["title"].v ELSE <<>>
ContentOf(item) == IF "content" \in DOMAIN item THEN item["content"].v ELSE <<>>

\* two character sequences are the same up to letter case
SameIgnoringCase(s, t) ==
    /\ Len(s) = Len(t)
    /\ \A k \in 1..Len(s) : LowerChar(s[k]) = LowerChar(t[k])

\* s without its leading and trailing whitespace
Trimmed(s) ==
    LET inked == {k \in 1..Len(s) : s[k] # " "}
    IN IF inked = {} THEN <<>>
       ELSE SubSeq(s, CHOOSE k \in inked : \A l \in inked : k <= l,
                      CHOOSE k \in inked : \A l \in inked : l <= k)

\* (a) as the claim states it: the titles themselves
TitlesMatch(a, b) ==
    /\ TitleOf(a) # <<>>
    /\ TitleOf(b) # <<>>
    /\ SameIgnoringCase(TitleOf(a), TitleOf(b))

\* (a) on the titles without surrounding whitespace
TrimmedTitlesMatch(a, b) ==
    /\ Trimmed(TitleOf(a)) # <<>>
    /\ Trimmed(TitleOf(b)) # <<>>
    /\ SameIgnoringCase(Trimmed(TitleOf(a)), Trimmed(TitleOf(b)))

\* (b): both contents of 50 characters or more and similar enough
ContentsMatch(a, b) ==
    /\ Len(ContentOf(a)) >= 50
    /\ Len(ContentOf(b)) >= 50
    /\ LET sim == calculate_similarity(ContentOf(a), ContentOf(b))
       IN sim.num * 10 >= similarity_threshold * sim.den

\* C1 as stated: are_duplicates(a, b) is true exactly when (a) the titles are
\* non-empty and identical ignoring case, or (b) both contents have 50
\* characters or more and their case-folded similarity ratio reaches the
\* threshold.
C1_AreDuplicatesAsStated ==
    phase = "compared" =>
        (cmp.forward <=> (\/ TitlesMatch(items[cmp.i], items[cmp.j])
                          \/ ContentsMatch(items[cmp.i], items[cmp.j])))

\* C1 amended: are_duplicates(a, b) is true exactly when (a) the titles, with
\* leading and trailing whitespace removed, are non-empty and identical
\* ignoring case, or (b) both contents have 50 characters or more and the
\* similarity ratio of the case-folded contents, taken in the order (a, b),
\* reaches the threshold; in every other case it is false.
C1_AreDuplicatesIff ==
    phase = "compared" =>
        /\ cmp.forward <=> (\/ TrimmedTitlesMatch(items[cmp.i], items[cmp.j])
                            \/ ContentsMatch(items[cmp.i], items[cmp.j]))
        /\ cmp.backward <=> (\/ TrimmedTitlesMatch(items[cmp.j], items[cmp.i])
                             \/ ContentsMatch(items[cmp.j], items[cmp.i]))

\* C1 witness: a pair with different titles whose contents are exactly at
\* the default threshold (ratio 0.8), found duplicates by are_duplicates.
C1_Witness ==
    /\ phase = "compared"
    /\ cmp.forward
    /\ similarity_threshold = default_similarity_threshold
    /\ ~TrimmedTitlesMatch(items[cmp.i], items[cmp.j])
    /\ LET sim == calculate_similarity(ContentOf(items[cmp.i]), ContentOf(items[cmp.j]))
       IN sim.num * 10 = 8 * sim.den

\* C2: unique_items is a subsequence of the input, in input order, made of
\* the earliest item of every duplicate group; duplicate_groups holds exactly
\* the groups of two or more, each starting with its representative; two
\* items with the same title give one unique item and one group of two.
C2_UniqueItemsAndGroups ==
    phase = "deduplicated" =>
        LET U == dedup_result.unique_items
            G == dedup_result.duplicate_groups
        IN /\ Range(U) \subseteq Range(items)
           /\ \A k, l \in 1..Len(U) : k < l => PosIn(items, U[k]) < PosIn(items, U[l])
           /\ \A g \in 1..Len(G) :
                /\ Len(G[g]) >= 2
                /\ G[g][1] \in Range(U)
                /\ \A k \in 2..Len(G[g]) :
                     /\ G[g][k] \in Range(items) \ Range(U)
                     /\ PosIn(items, G[g][1]) < PosIn(items, G[g][k])
                     /\ are_duplicates(G[g][1], G[g][k], similarity_threshold)
           /\ \A g, h \in 1..Len(G) : g < h => PosIn(U, G[g][1]) < PosIn(U, G[h][1])
           /\ \A x \in Range(items) \ Range(U) :
                Cardinality({g \in 1..Len(G) : x \in Range(G[g])}) = 1
           /\ (Len(items) = 2 /\ TrimmedTitlesMatch(items[1], items[2]))
                => (U = <<items[1]>> /\ G = <<items>>)

\* C2 witness: two items with the same title were deduplicated to one
\* unique item and one group of two.
C2_Witness ==
    /\ phase = "deduplicated"
    /\ Len(items) = 2
    /\ TitleOf(items[1]) = TitleOf(items[2])
    /\ TitleOf(items[1]) = <<"c", "d">>
    /\ Len(dedup_result.unique_items) = 1
    /\ Len(dedup_result.duplicate_groups) = 1
    /\ Len(dedup_result.duplicate_groups[1]) = 2

\* C3: deduplicate on the unique_items it returned gives the same
\* unique_items, in the same order, and no duplicate group.
C3_Idempotent ==
    phase = "rerun" =>
        /\ rerun_result.unique_items = dedup_result.unique_items
        /\ rerun_result.unique_count = dedup_result.unique_count
        /\ rerun_result.duplicate_groups = <<>>

\* C3 witness: a first call that collapsed a group and kept two or more
\* unique items, followed by the second call.
C3_Witness ==
    /\ phase = "rerun"
    /\ Len(dedup_result.unique_items) >= 2
    /\ dedup_result.duplicate_groups # <<>>
    /\ rerun_result.unique_count = Len(dedup_result.unique_items)

\* C4: are_duplicates(a, b) = are_duplicates(b, a) for every pair of items.
C4_Symmetric ==
    phase = "compared" => (cmp.forward <=> cmp.backward)

\* C5: the representatives are exactly the items that no earlier
\* representative claims; a claimed item sits in the group of the earliest
\* representative it duplicates, whatever it has in common with the other
\* members; for [A, B, C] with B a duplicate of A, C of B and C not of A the
\* result is unique_items [A, C] and the one group [A, B].
C5_GreedyAnchors ==
    phase = "deduplicated" =>
        LET U == dedup_result.unique_items
            G == dedup_result.duplicate_groups
            n == Len(items)
            R == {k \in 1..n : items[k] \in Range(U)}
            dup(i, j) == are_duplicates(items[i], items[j], similarity_threshold)
        IN /\ \A j \in 1..n : j \in R <=> (\A i \in R : i < j => ~dup(i, j))
           /\ \A j \in (1..n) \ R :
                LET anchor == CHOOSE i \in R : /\ i < j /\ dup(i, j)
                                               /\ \A h \in R : (h < j /\ dup(h, j)) => i <= h
                IN \E g \in 1..Len(G) : G[g][1] = items[anchor] /\ items[j] \in Range(G[g])
           /\ (n = 3 /\ dup(1, 2) /\ dup(2, 3) /\ ~dup(1, 3))
                => (U = <<items[1], items[3]>> /\ G = << <<items[1], items[2]>> >>)

\* C5 witness: the list [A, B, C] of the claim, deduplicated.
C5_Witness ==
    /\ phase = "deduplicated"
    /\ Len(items) = 3
    /\ are_duplicates(items[1], items[2], similarity_threshold)
    /\ are_duplicates(items[2], items[3], similarity_threshold)
    /\ ~are_duplicates(items[1], items[3], similarity_threshold)
    /\ dedup_result.unique_items = <<items[1], items[3]>>

\* the positions (group, place) of the members of the groups after the first
LaterMembers(G) ==
    {p \in (1..Len(G)) \X (2..MaxItems) : p[2] <= Len(G[p[1]])}

\* C30: deduplicate partitions its input: every input item is in
\* unique_items or is a later member of exactly one duplicate group, never
\* both and never twice; unique_count is len(unique_items); len(items) is
\* len(unique_items) plus the members after the first of every group; the empty
\* list gives unique_count 0, no unique item and no group.
C30_Partition ==
    phase = "deduplicated" =>
        LET U == dedup_result.unique_items
            G == dedup_result.duplicate_groups
            Kept(x) == {k \in 1..Len(U) : U[k] = x}
            Folded(x) == {p \in LaterMembers(G) : G[p[1]][p[2]] = x}
        IN /\ \A k \in 1..Len(items) :
                Cardinality(Kept(items[k])) + Cardinality(Folded(items[k])) = 1
           /\ dedup_result.unique_count = Len(U)
           /\ Len(items) = Len(U) + Cardinality(LaterMembers(G))
           /\ \A g \in 1..Len(G) : Len(G[g]) <= MaxItems
           /\ items = <<>> => dedup_result = [unique_count |-> 0, unique_items |-> <<>>,
                                              duplicate_groups |-> <<>>]

\* three items, of which the last two are folded into the group of the first
C30_Witness ==
    /\ phase = "deduplicated"
    /\ Len(items) = 3
    /\ dedup_result.unique_count = 1
    /\ dedup_result.unique_items = <<items[1]>>
    /\ dedup_result.duplicate_groups = <<items>>

----------------------------------------------------------------------------
(* Claims about the Normalizer *)

\* the first of the aliases that the dict holds with a non-empty value, or
\* otherwise
RECURSIVE FirstNonEmpty(_, _, _)
FirstNonEmpty(d, aliases, otherwise) ==
    IF aliases = <<>> THEN otherwise
    ELSE IF Head(aliases) \in DOMAIN d /\ Truthy(d[Head(aliases)])
         THEN d[Head(aliases)]
    ELSE FirstNonEmpty(d, Tail(aliases), otherwise)

IsIso8601(s) ==
    /\ Len(s) = 11
    /\ s[1] \in Years /\ s[2] = "-" /\ s[3] \in Months /\ s[4] = "-" /\ s[5] \in Days
    /\ s[6] = "T" /\ s[8] = ":" /\ s[10] = ":"

\* C6: normalize returns, for every raw dict, an item in which title,
\* content, url, published_date and source are all present and are strings.
C6_RequiredFieldsAreStrings ==
    phase = "normalized" =>
        /\ ~normalized.raised
        /\ \A f \in {"title", "content", "url", "published_date", "source"} :
             /\ f \in DOMAIN normalized.value
             /\ normalized.value[f].ty = "str"

\* C7: every required field is the first non-empty candidate among its
\* aliases, else its default: "Untitled", "", "", "No date available",
\* "Unknown" (the date candidate as normalize_date renders it).
C7_FirstNonEmptyOrDefault ==
    phase = "normalized" =>
        LET d == raw.v
            out == normalized.value
            date == FirstNonEmpty(d, <<"published_date", "published", "pubDate">>, None)
        IN /\ out["title"] = FirstNonEmpty(d, <<"title">>, Str(<<"Untitled">>))
           /\ out["content"] =
                FirstNonEmpty(d, <<"content", "summary", "description">>, Str(<<>>))
           /\ out["url"] = FirstNonEmpty(d, <<"url", "link">>, Str(<<>>))
           /\ out["published_date"] =
                (IF date = None THEN Str(<<"No date available">>) ELSE normalize_date(date))
           /\ out["source"] = FirstNonEmpty(d, <<"source">>, Str(<<"Unknown">>))

\* C8: normalize copies every key of the input that is not a required field,
\* with its value; the copy leaves the five required fields as lines 56-63
\* set them; the input dict is as it was.
C8_ExtraFieldsCopied ==
    phase = "normalized" =>
        LET d == raw.v
            out == normalized.value
            required == {"title", "content", "url", "published_date", "source"}
        IN /\ ~normalized.raised
           /\ DOMAIN out = required \cup DOMAIN d
           /\ \A key \in DOMAIN d \ required : out[key] = d[key]
           /\ out["title"] = (IF "title" \in DOMAIN d THEN d["title"] ELSE Str(<<"Untitled">>))
           /\ out["source"] = (IF "source" \in DOMAIN d THEN d["source"] ELSE Str(<<"Unknown">>))
           /\ out["content"] =
                FirstNonEmpty(d, <<"content", "summary", "description">>, Str(<<>>))
           /\ out["url"] = FirstNonEmpty(d, <<"url", "link">>, Str(<<>>))
           /\ out["published_date"].ty = "str"
           /\ ("published_date" \in DOMAIN d /\ d["published_date"] = Str(IsoDay))
                => out["published_date"] = Str(IsoDay \o <<"T", "00", ":", "00", ":", "00">>)
           /\ raw_after = raw

\* C8 witness: a raw item with an extra field and a date that normalize
\* rewrites; the extra field is in the output, the rewritten date is kept.
C8_Witness ==
    /\ phase = "normalized"
    /\ DOMAIN raw.v = {"author", "published_date"}
    /\ raw.v["author"] = Str(<<"a">>)
    /\ raw.v["published_date"] = Str(IsoDay)
    /\ normalized.value["author"] = Str(<<"a">>)
    /\ normalized.value["published_date"] # raw.v["published_date"]

\* C9: normalize_date returns "No date available" for an absent or empty
\* value and for a value that cannot be parsed as a date, and an ISO-8601
\* string for every other value.
C9_SentinelOrIso ==
    phase = "date_normalized" =>
        LET parseable ==
                \/ date_value.ty = "datetime"
                \/ date_value.ty = "str" /\ ~date_parser_parse(date_value.v).raised
        IN /\ ~date_result.raised
           /\ date_result.value.ty = "str"
           /\ IF ~Truthy(date_value) \/ ~parseable
              THEN date_result.value.v = <<"No date available">>
              ELSE IsIso8601(date_result.value.v)

\* C10: normalize_batch returns, in input order, the normalized form of
\* exactly the entries that are not None and whose normalization did not
\* fail; it does not raise, and the entries after a None or a failing entry
\* are processed.
C10_BatchSkipsBadEntries ==
    phase = "batch_normalized" =>
        LET good == {k \in 1..Len(batch) :
                        batch[k].ty # "NoneType" /\ ~normalize_item(batch[k]).raised}
            nth(n) == CHOOSE k \in good : Cardinality({g \in good : g <= k}) = n
            out == batch_result.value
        IN /\ ~batch_result.raised
           /\ Len(out) = Cardinality(good)
           /\ \A n \in 1..Len(out) : out[n] = normalize_item(batch[nth(n)]).value

\* C10 witness: a batch whose first entry fails, whose second is None and
\* whose third is a dict: the output is the third, normalized.
C10_Witness ==
    /\ phase = "batch_normalized"
    /\ Len(batch) = 3
    /\ batch[1].ty = "str"
    /\ batch[2].ty = "NoneType"
    /\ batch[3].ty = "dict"
    /\ Len(batch_result.value) = 1
    /\ "published_date" \in DOMAIN batch_result.value[1]

----------------------------------------------------------------------------
(* Claims about the Clustering *)

\* the value of a field that is absent or a str, as characters
TextOf(d, key) == IF key \in DOMAIN d THEN d[key].v ELSE <<>>
IsText(d, key) == key \notin DOMAIN d \/ d[key].ty = "str"

\* keyword occurs in text as a substring, letter case ignored
OccursIgnoringCase(keyword, text) ==
    \E off \in 0..(Len(text) - Len(keyword)) :
        \A k \in 1..Len(keyword) : LowerChar(keyword[k]) = LowerChar(text[off + k])

\* title + " " + content
TitleAndContent(d) == TextOf(d, "title") \o <<" ">> \o TextOf(d, "content")

\* how many keywords of the list occur in the text, each counted once
KeywordsOccurring(keyword_list, text) ==
    Cardinality({k \in 1..Len(keyword_list) : OccursIgnoringCase(keyword_list[k], text)})

\* the cluster the claim names for the text: the first declared of those
\* with the most keywords occurring, "general" when no keyword occurs
BestCluster(keywords, text) ==
    LET n(k) == KeywordsOccurring(keywords[k].keyword_list, text)
        best == {k \in 1..Len(keywords) : n(k) > 0 /\ \A l \in 1..Len(keywords) : n(l) <= n(k)}
    IN IF best = {} THEN "general"
       ELSE keywords[CHOOSE k \in best : \A l \in best : k <= l].cluster_name

ClusterNames(keywords) == {keywords[k].cluster_name : k \in 1..Len(keywords)}

\* the names of the taxonomy handed to the constructor; no taxonomy handed
\* in means the default one
ConfiguredNames ==
    IF taxonomy = None THEN ClusterNames(Clustering_default_keywords)
    ELSE ClusterNames(taxonomy.v)

ClusterIdOf(d) == d["cluster_id"].v[1]

\* C11: find_cluster returns the cluster with the most keywords occurring
\* (case-insensitively, as substrings, each keyword once) in
\* lower(title + " " + content); among clusters with the same largest count
\* the first declared wins (with the default taxonomy "compliance" alone goes
\* to shadow_ai, not regulatory); when no keyword occurs it returns "general".
C11_MostKeywordsFirstDeclared ==
    (/\ phase = "found"
     /\ IsText(cluster_items[find_result.k], "title")
     /\ IsText(cluster_items[find_result.k], "content"))
    => /\ ~find_result.outcome.raised
       /\ find_result.outcome.value =
              Str(<<BestCluster(Clustering_init(taxonomy),
                                TitleAndContent(cluster_items[find_result.k]))>>)
       /\ (/\ taxonomy = None
           /\ cluster_items[find_result.k] = [title |-> Str(<<"c", "o", "m", "p", "l", "i", "a",
               "n", "c", "e">>)])
          => find_result.outcome.value = Str(<<"shadow_ai">>)

\* find_cluster was called on an item for which two clusters share the
\* largest count, and returned the one declared first
C11_Witness ==
    /\ phase = "found"
    /\ taxonomy = None
    /\ cluster_items[find_result.k] = [title |-> Str(<<"c", "o", "m", "p", "l", "i", "a", "n", "c",
        "e">>)]
    /\ KeywordsOccurring(Clustering_default_keywords[5].keyword_list, <<"c", "o", "m", "p", "l",
        "i", "a", "n", "c", "e">>) = 1
    /\ KeywordsOccurring(Clustering_default_keywords[9].keyword_list, <<"c", "o", "m", "p", "l",
        "i", "a", "n", "c", "e">>) = 1
    /\ find_result.outcome = Returned(Str(<<"shadow_ai">>))

\* C12: for every item and every taxonomy handed to Clustering, the empty one
\* included, cluster() sets cluster_id to "general" or to a cluster name of
\* that taxonomy, and clustering the same item again gives the same
\* cluster_id.
C12_TotalAndDeterministic ==
    /\ phase \in {"clustered", "reclustered"}
       => \A k \in 1..Len(clustered.value) :
              /\ "cluster_id" \in DOMAIN clustered.value[k]
              /\ ClusterIdOf(clustered.value[k]) \in {"general"} \cup ConfiguredNames
    /\ phase = "reclustered"
       => \A k \in 1..Len(clustered.value) :
              ClusterIdOf(reclustered.value[k]) = ClusterIdOf(clustered.value[k])

\* C13: cluster(items) returns a list of the same length and in the same
\* order as the input; an item for which find_cluster raises gets cluster_id
\* "general", and every other item, before or after it, gets the cluster
\* find_cluster returns for it.
C13_NeverAbortsTheBatch ==
    phase = "clustered"
    => /\ ~clustered.raised
       /\ Len(clustered.value) = Len(cluster_items)
       /\ \A k \in 1..Len(cluster_items) :
              LET before == cluster_items[k]
                  after == clustered.value[k]
                  cluster_id == find_cluster(before, Clustering_init(taxonomy))
              IN /\ DOMAIN after = DOMAIN before \cup {"cluster_id"}
                 /\ \A key \in DOMAIN before : after[key] = before[key]
                 /\ cluster_id.raised => after["cluster_id"] = Str(<<"general">>)
                 /\ ~cluster_id.raised => after["cluster_id"] = cluster_id.value

\* a list whose first item makes find_cluster raise and whose second item is
\* clustered by its keyword
C13_Witness ==
    /\ phase = "clustered"
    /\ Len(cluster_items) = 2
    /\ "title" \in DOMAIN cluster_items[1]
    /\ cluster_items[1]["title"] = None
    /\ find_cluster(cluster_items[1], Clustering_init(taxonomy)).raised
    /\ ClusterIdOf(clustered.value[1]) = "general"
    /\ ClusterIdOf(clustered.value[2]) \notin {"general"}

----------------------------------------------------------------------------
(* Claims about the dimension scorers *)

Scored(scorer) == phase = "scored" /\ score_result.scorer = scorer

\* title and content of the scored item are str, or absent
ItemIsText == IsText(score_item, "title") /\ IsText(score_item, "content")

\* the smaller of n and 100
Capped(n) == IF n < 100 THEN n ELSE 100

\* how many (topic, keyword) entries of the groups occur in the text
EntriesOccurring(groups, text) ==
    Cardinality({e \in UNION {{<<g, k>> : k \in 1..Len(groups[g].keyword_list)} :
                                 g \in 1..Len(groups)} :
                    OccursIgnoringCase(groups[e[1]].keyword_list[e[2]], text)})

\* C14: whatever item a dimension scorer is given, the value it returns is
\* between 0 and 100.
C14_ScoresWithinBounds ==
    (phase = "scored" /\ ~score_result.outcome.raised)
    => /\ score_result.outcome.value.ty = "float"
       /\ score_result.outcome.value.v >= 0
       /\ score_result.outcome.value.v <= 100

\* the impact scorer was given a text whose keywords add up to more than 100
C14_Witness ==
    /\ Scored("impact")
    /\ KeywordsOccurring(HIGH_IMPACT_KEYWORDS, TitleAndContent(score_item)) * 20 > 100
    /\ score_result.outcome = Returned(PyFloat(100))

\* C15: no dimension scorer raises, also when title, content, published_date
\* or credibility_tier is absent, None or of an unexpected type.
C15_ScorersNeverRaise ==
    phase = "scored" => ~score_result.outcome.raised

\* C16: RelevanceScorer.score is min(10 * m, 100), m being the number of
\* (topic, keyword) entries of the configured groups whose keyword occurs
\* case-insensitively in title + " " + content; no match scores 0.
C16_RelevanceTenPerEntry ==
    (Scored("relevance") /\ ItemIsText)
    => LET m == EntriesOccurring(load_keywords(high_priority),
                                 TitleAndContent(score_item))
       IN /\ score_result.outcome = Returned(PyFloat(Capped(10 * m)))
          /\ m = 0 => score_result.outcome.value.v = 0

\* a keyword configured under two topics occurs and is counted for both, and
\* the entries add up to more than 100
C16_Witness ==
    /\ Scored("relevance")
    /\ high_priority = CustomTopics
    /\ score_item = [title |-> Str(<<"A", "B", "C", "D", "E", "F">>), content |-> Str(<<"g", "o",
        "v", "e", "r", "n", "a", "n", "c", "e">>)]
    /\ EntriesOccurring(load_keywords(high_priority), TitleAndContent(score_item)) = 12
    /\ score_result.outcome = Returned(PyFloat(100))

\* the tier of the scored item, a str, with its letters in lower case;
\* "unknown" when the item has none
TierOf(d) ==
    IF "credibility_tier" \in DOMAIN d
    THEN [k \in 1..Len(d["credibility_tier"].v) |-> LowerChar(d["credibility_tier"].v[k])]
    ELSE <<"u", "n", "k", "n", "o", "w", "n">>

\* C17: CredibilityScorer.score depends only on credibility_tier (a str,
\* whatever its letter case, or missing): high gives 100, medium 70, low 40,
\* and an unrecognized or missing tier 50.
C17_CredibilityLookup ==
    (Scored("credibility") /\ IsText(score_item, "credibility_tier"))
    => LET tier == TierOf(score_item)
       IN score_result.outcome =
              Returned(PyFloat(CASE tier = <<"h", "i", "g", "h">> -> 100
                                 [] tier = <<"m", "e", "d", "i", "u", "m">> -> 70
                                 [] tier = <<"l", "o", "w">> -> 40
                                 [] OTHER -> 50))

\* an item with a title and the tier low was scored 40
C17_Witness ==
    /\ Scored("credibility")
    /\ score_item = [credibility_tier |-> Str(<<"l", "o", "w">>), title |-> Str(<<"C", "V", "E">>)]
    /\ score_result.outcome = Returned(PyFloat(40))

\* C18: ImpactScorer.score is min(20 * H + 10 * M, 100), H and M being the
\* numbers of high-impact and medium-impact keywords that occur in
\* title + " " + content regardless of letter case; every keyword of the two
\* sets can contribute.
C18_ImpactEveryKeywordCounts ==
    (Scored("impact") /\ ItemIsText)
    => LET H == KeywordsOccurring(HIGH_IMPACT_KEYWORDS, TitleAndContent(score_item))
           M == KeywordsOccurring(MEDIUM_IMPACT_KEYWORDS, TitleAndContent(score_item))
       IN score_result.outcome = Returned(PyFloat(Capped(20 * H + 10 * M)))

\* the date of the scored item, when it has one the scorer can read
HasDate(d) ==
    /\ "published_date" \in DOMAIN d
    /\ d["published_date"] \in {Str(IsoDay), Str(<<"15", " ", "Jan", " ", "2024">>),
                                DateTime("2024", "01", "15")}

\* the age of an item published on 15 January 2024 at midnight, in seconds
AgeInSeconds(clock) ==
    (toordinal(clock.date) - toordinal(DateTime("2024", "01", "15"))) * (LastSecond + 1)
    + clock.seconds

WholeDays(n) == n * (LastSecond + 1)

StepOfAge(age) ==
    IF age < WholeDays(1) THEN 100
    ELSE IF age < WholeDays(7) THEN 90
    ELSE IF age < WholeDays(30) THEN 70
    ELSE IF age < WholeDays(90) THEN 50
    ELSE 30

\* C19: FreshnessScorer.score is a step function of age = now -
\* published_date: under 1 day 100, under 7 days 90, under 30 days 70, under
\* 90 days 50, from 90 days on 30; a missing, sentinel or unparseable date
\* gives 50; and the score does not increase as the age grows.
C19_FreshnessSteps ==
    (Scored("freshness") /\ IsText(score_item, "title"))
    => /\ HasDate(score_item)
          => score_result.outcome = Returned(PyFloat(StepOfAge(AgeInSeconds(now))))
       /\ ~HasDate(score_item) => score_result.outcome = Returned(PyFloat(50))
       /\ HasDate(score_item)
          => \A later \in Nows :
                 AgeInSeconds(later) >= AgeInSeconds(now)
                 => FreshnessScorer_score(score_item, later).value.v
                        <= score_result.outcome.value.v

\* an item exactly one day old was scored 90
C19_Witness ==
    /\ Scored("freshness")
    /\ score_item = [published_date |-> Str(IsoDay)]
    /\ AgeInSeconds(now) = WholeDays(1)
    /\ score_result.outcome = Returned(PyFloat(90))

\* C20: PracticalityScorer.score is min(20 * p, 100), p being the number of
\* actionable keywords that occur case-insensitively in
\* title + " " + content; no keyword scores 0, five or more score 100.
C20_PracticalityTwentyPerKeyword ==
    (Scored("practicality") /\ ItemIsText)
    => LET p == KeywordsOccurring(PRACTICAL_KEYWORDS, TitleAndContent(score_item))
       IN /\ score_result.outcome = Returned(PyFloat(Capped(20 * p)))
          /\ p = 0 => score_result.outcome.value.v = 0
          /\ p >= 5 => score_result.outcome.value.v = 100

\* keywords written in another letter case in the text were counted
C20_Witness ==
    /\ Scored("practicality")
    /\ score_item = [title |-> Str(<<"M", "i", "t", "i", "g", "a", "t", "i", "o", "n", " ", "G",
        "u", "i", "d", "e">>),
                     content |-> Str(<<"f", "i", "x", " ", "d", "e", "f", "e", "n", "s", "e", " ",
                         "r", "e", "s", "p", "o", "n", "s", "e">>)]
    /\ KeywordsOccurring(PRACTICAL_KEYWORDS, TitleAndContent(score_item)) = 5
    /\ score_result.outcome = Returned(PyFloat(100))


----------------------------------------------------------------------------
(* Claims about ScoreWeights *)

\* every dimension name of the configurations and of the scores
AllDimensions == DIMENSIONS \cup {"novelty"}

\* weight[d] * scores[d] of one dimension, 0 when either mapping lacks it
Term(weights, d) ==
    IF d \in DOMAIN dimension_scores /\ d \in DOMAIN weights
    THEN weights[d].v * dimension_scores[d].v
    ELSE 0

SumOfTerms(weights) ==
    Term(weights, "relevance") + Term(weights, "credibility") + Term(weights, "impact")
      + Term(weights, "freshness") + Term(weights, "practicality") + Term(weights, "novelty")

WeightOf(weights, d) == IF d \in DOMAIN weights THEN weights[d].v ELSE 0

SumOfWeights(weights) ==
    WeightOf(weights, "relevance") + WeightOf(weights, "credibility")
      + WeightOf(weights, "impact") + WeightOf(weights, "freshness")
      + WeightOf(weights, "practicality") + WeightOf(weights, "novelty")

AllScore(weights, c) ==
    \A d \in DOMAIN weights : d \in DOMAIN dimension_scores /\ dimension_scores[d] = PyFloat(c)

\* C21: calculate_weighted_score(scores) is the sum, over the dimensions
\* present in scores, of weight[d] * scores[d]; a dimension the weights do
\* not hold contributes 0 and the two key sets may differ.  When every
\* weighted dimension scores the same c the result is c times the sum of
\* the weights: with the default weights all 100 gives 100 and all 50
\* gives 50.
C21_WeightedSum ==
    phase = "weighted" =>
        /\ weighted_score = Weighted(SumOfTerms(loaded.weights))
        /\ \A c \in {0, 40, 50, 70, 100} :
               AllScore(loaded.weights, c) =>
                   weighted_score = Weighted(c * SumOfWeights(loaded.weights))
        /\ loaded.weights = default_weights /\ AllScore(default_weights, 100) =>
               weighted_score = Weighted(100 * 100)
        /\ loaded.weights = default_weights /\ AllScore(default_weights, 50) =>
               weighted_score = Weighted(50 * 100)

\* the scores hold a dimension the default weights do not: it adds nothing
C21_Witness ==
    /\ phase = "weighted"
    /\ loaded.weights = default_weights
    /\ dimension_scores = [relevance |-> PyFloat(100), novelty |-> PyFloat(100)]
    /\ weighted_score = Weighted(35 * 100)

\* what the configuration says of one dimension
IsConfigured(d) == d \in DOMAIN dimensions
WellFormed(d) ==
    /\ dimensions[d].ty = "dict"
    /\ "weight" \in DOMAIN dimensions[d].v => dimensions[d].v["weight"].ty = "float"
ConfiguredWeight(d) ==
    IF "weight" \in DOMAIN dimensions[d].v THEN dimensions[d].v["weight"] ELSE Weight(0)
LoadingFails == \E d \in DOMAIN dimensions : ~WellFormed(d)
ConfiguredTotal ==
    LET w(d) == IF IsConfigured(d) THEN ConfiguredWeight(d).v ELSE 0
    IN w("relevance") + w("credibility") + w("impact") + w("freshness")
         + w("practicality") + w("novelty")
ConfiguredSum ==
    LET t(d) == IF IsConfigured(d) /\ d \in DOMAIN dimension_scores
                THEN ConfiguredWeight(d).v * dimension_scores[d].v ELSE 0
    IN t("relevance") + t("credibility") + t("impact") + t("freshness")
         + t("practicality") + t("novelty")

\* C22: loading the weights always ends with weights.  Configured weights
\* whose sum is more than 0.01 away from 1.0 are used exactly as configured,
\* with a warning: the weighted score is computed from them and is not
\* renormalized or clamped.  When loading fails the hardcoded defaults
\* (0.35, 0.25, 0.15, 0.15, 0.10) are used.
C22_WeightsUsedAsConfigured ==
    phase \in {"weights_loaded", "weighted"} =>
        /\ LoadingFails => loaded.weights = default_weights /\ loaded.error
        /\ ~LoadingFails /\ dimensions # EmptyDict =>
               /\ DOMAIN loaded.weights = DOMAIN dimensions
               /\ \A d \in DOMAIN dimensions : loaded.weights[d] = ConfiguredWeight(d)
               /\ loaded.warning <=> (ConfiguredTotal > 101 \/ ConfiguredTotal < 99)
               /\ ~loaded.error
               /\ phase = "weighted" => weighted_score = Weighted(ConfiguredSum)
        /\ default_weights = [relevance |-> Weight(35), credibility |-> Weight(25),
                              impact |-> Weight(15), freshness |-> Weight(15),
                              practicality |-> Weight(10)]

\* weights summing to 2.0 are warned about and used: two scores of 100 give 200
C22_Witness ==
    /\ phase = "weighted"
    /\ loaded.warning
    /\ loaded.weights = [relevance |-> Weight(100), credibility |-> Weight(100)]
    /\ AllScore(loaded.weights, 100)
    /\ weighted_score = Weighted(200 * 100)

\* C23: whatever weights the configuration supplies, dimension scores
\* between 0 and 100 give a final score between 0 and 100.
C23_FinalScoreWithinRange ==
    (/\ phase = "weighted"
     /\ \A d \in DOMAIN dimension_scores : dimension_scores[d].v \in 0..100)
        => weighted_score.v \in 0..(100 * 100)

----------------------------------------------------------------------------
(* Claims about the SummarizerFactory *)

\* what the LLM summarizer makes of item k, and whether that is a result
LLMOutcome(k) == LLMSummarizer_summarize(to_summarize[k], ollama_responses[k])
LLMGaveResult(k) == ~LLMOutcome(k).raised /\ LLMOutcome(k).value # None
FallbackOutcome(k) == FallbackSummarizer_summarize(to_summarize[k])

\* what summarize is to return for item k
DueSummary(k) ==
    IF prefer_llm /\ llm_available /\ LLMGaveResult(k)
    THEN LLMOutcome(k)
    ELSE FallbackOutcome(k)

\* the summarizer that is asked for item k raises
SummarizingRaises(k) ==
    \/ prefer_llm /\ llm_available /\ LLMOutcome(k).raised
    \/ FallbackOutcome(k).raised /\ ~(prefer_llm /\ llm_available /\ LLMGaveResult(k))

IsSummary(x) ==
    /\ x.ty = "dict"
    /\ SUMMARY_FIELDS \subseteq DOMAIN x.v
    /\ \A f \in SUMMARY_FIELDS : x.v[f].ty = "str"

\* C27: summarize returns a summary whenever it returns: the result of the
\* LLM when prefer_llm is set, the LLM was available at construction and the
\* LLM call gave a result, the result of the fallback summarizer in every
\* other case.  summarize_batch returns every input item, in order, with
\* summary, why_it_matters and practical_mitigation set, also for an item
\* whose summarizing raised.
C27_AlwaysASummary ==
    /\ phase = "summary_returned" =>
           LET k == summarize_result.k
               outcome == summarize_result.outcome
           IN /\ outcome.raised <=> SummarizingRaises(k)
              /\ ~outcome.raised => IsSummary(outcome.value) /\ outcome = DueSummary(k)
    /\ phase = "batch_summarized" =>
           /\ Len(batch_summarized) = Len(to_summarize)
           /\ \A k \in 1..Len(to_summarize) :
                LET before == to_summarize[k]
                    after == batch_summarized[k]
                IN /\ DOMAIN after = DOMAIN before \cup SUMMARY_FIELDS
                   /\ \A key \in DOMAIN before \ SUMMARY_FIELDS : after[key] = before[key]
                   /\ \A f \in SUMMARY_FIELDS : after[f].ty = "str"
                   /\ ~SummarizingRaises(k) =>
                          \A f \in SUMMARY_FIELDS : after[f] = DueSummary(k).value.v[f]
                   /\ SummarizingRaises(k) =>
                          /\ after["summary"] = Str(<<"S", "u", "m", "m", "a", "r", "i", "z", "a",
                              "t", "i", "o", "n", " ", "f", "a", "i", "l", "e", "d">>)
                          /\ after["why_it_matters"] = Str(<<"N", "/", "A">>)
                          /\ after["practical_mitigation"] = Str(<<"N", "/", "A">>)

\* a batch of two: summarizing the first item raised, the second got the
\* summary of the LLM
C27_Witness ==
    /\ phase = "batch_summarized"
    /\ prefer_llm /\ llm_available
    /\ Len(to_summarize) = 2
    /\ to_summarize[1] = NoneTitle
    /\ batch_summarized[1]["summary"] = Str(<<"S", "u", "m", "m", "a", "r", "i", "z", "a", "t",
        "i", "o", "n", " ", "f", "a", "i", "l", "e", "d">>)
    /\ to_summarize[2] = TestItem
    /\ batch_summarized[2]["summary"] = Str(<<"L", "L", "M", " ", "s", "u", "m", "m", "a", "r",
        "y">>)
    /\ batch_summarized[2]["title"] = Str(<<"T", "e", "s", "t">>)
----------------------------------------------------------------------------
(* Claims about main *)

\* main has scored the items
MainScored == phase \in {"main_scored", "main_ranked", "main_summarized", "main_returned"}

\* the configuration of the source the item at place p was fetched from (the
\* sources of a configuration have different names)
SourceOf(p) ==
    LET k == CHOOSE k \in 1..Len(main_config.sources) :
                 main_config.sources[k]["name"] = main_items[p]["source"]
    IN main_config.sources[k]

\* C28: once main has scored the items, the credibility score of every item
\* is the score of the credibility_tier of the source it was fetched from:
\* 100 for a high source, 70 for a medium one, 40 for a low one.
C28_TierOfTheSource ==
    MainScored =>
        \A k \in 1..Len(clustered_places) :
            LET p == clustered_places[k]
            IN main_items[p]["scores"].v["credibility"]
                 = PyFloat(TIER_SCORES_get(SourceOf(p)["credibility_tier"].v))

\* C29: once main has normalized the items, the published_date of every item
\* whose entry had a parsed publication date is the ISO-8601 string of that
\* date, and once main has scored them the freshness score of such an item
\* is the score of its age.
C29_DateSurvives ==
    \A p \in 1..Len(main_items) :
        all_items[p]["pub_date"] # None =>
            /\ main_items[p]["published_date"] = all_items[p]["pub_date"]
            /\ (MainScored /\ \E k \in 1..Len(clustered_places) : clustered_places[k] = p) =>
                   main_items[p]["scores"].v["freshness"]
                     = PyFloat(age_score(age_of(main_clock,
                                                parse_date(all_items[p]["pub_date"]))))

\* main has sorted the items
Ranked == phase \in {"main_ranked", "main_summarized", "main_returned"}

\* the final score main gave to the item at place p
FinalScore(p) == main_items[p]["final_score"].v

\* where place p stands in a list of places
IndexIn(places, p) == CHOOSE k \in 1..Len(places) : places[k] = p

\* C24: once main has sorted the items, the ranked list holds each scored
\* item once and nothing else, no item is followed by one with a greater
\* final score, and items with the same final score are in the order they
\* had in the list that clustering returned.
C24_StableRanking ==
    Ranked =>
        /\ Len(ranked_places) = Len(clustered_places)
        /\ \A k \in 1..Len(clustered_places) :
               \E r \in 1..Len(ranked_places) : ranked_places[r] = clustered_places[k]
        /\ \A r \in 1..Len(ranked_places), q \in 1..Len(ranked_places) :
               r < q =>
                   /\ FinalScore(ranked_places[r]) >= FinalScore(ranked_places[q])
                   /\ FinalScore(ranked_places[r]) = FinalScore(ranked_places[q]) =>
                          IndexIn(clustered_places, ranked_places[r])
                            < IndexIn(clustered_places, ranked_places[q])

\* main has sorted a list with two items of the same final score, and the
\* sort has moved an item
C24_Witness ==
    /\ phase = "main_ranked"
    /\ ranked_places # clustered_places
    /\ \E r \in 1..Len(ranked_places), q \in 1..Len(ranked_places) :
           r # q /\ FinalScore(ranked_places[r]) = FinalScore(ranked_places[q])

\* the keys of every dict of the list before the step are keys of the dict
\* at the same place after it
KeysKept(before, after) ==
    /\ Len(after) = Len(before)
    /\ \A p \in 1..Len(before) : DOMAIN before[p] \subseteq DOMAIN after[p]

\* the step is the stage that starts at this phase
StageFrom(started) == phase = started /\ phase' # started

\* C25: the normalized item has every key of the item that was normalized;
\* deduplication leaves the items as they are and returns some of them;
\* after clustering and after scoring every item has the keys it had
\* before, and clustering leaves title, content and url as they were.
C25_FieldsOnlyAdded ==
    [][/\ StageFrom("main_parsed") => KeysKept(all_items, main_items')
       /\ StageFrom("main_normalized") =>
              /\ main_items' = main_items
              /\ \A k \in 1..Len(unique_places') : unique_places'[k] \in 1..Len(main_items)
       /\ StageFrom("main_deduplicated") =>
              /\ KeysKept(main_items, main_items')
              /\ \A p \in 1..Len(main_items), key \in {"title", "content", "url"} :
                     main_items'[p][key] = main_items[p][key]
       /\ StageFrom("main_clustered") => KeysKept(main_items, main_items')]_vars

\* main has scored an item that has, besides the fields the stages set,
\* a field only the fetcher set
C25_Witness ==
    /\ phase = "main_scored"
    /\ \E k \in 1..Len(clustered_places) :
           {"fetched_date", "cluster_id", "scores", "final_score", "published_date"}
               \subseteq DOMAIN main_items[clustered_places[k]]

\* the item at place p carries what clustering and scoring set
CarriesScores(list, p) ==
    /\ {"cluster_id", "scores", "final_score"} \subseteq DOMAIN list[p]
    /\ list[p]["scores"].ty = "dict"
    /\ DOMAIN list[p]["scores"].v = DIMENSIONS

\* the counts main returns agree with each other
CountsAgree(result) ==
    /\ result.items_unique <= result.items_processed
    /\ result.items_processed <= result.items_fetched
    /\ result.items_scored = result.items_unique
    /\ result.items_summarized = min(20, result.items_unique)
    /\ result.items_fetched = 0 => result = NoStats

\* C26: every step of main is the next stage in the order normalize,
\* deduplicate, cluster, score, sort, and each stage handles the whole list
\* the stage before it left; every ranked item carries cluster_id, scores
\* with the five dimensions and final_score; the counts main returns obey
\* unique <= processed <= fetched, scored = unique and
\* summarized = min(20, unique), and are all 0 when nothing was fetched.
C26_StagesInOrder ==
    [][/\ phase = "main_parsed" =>
              phase' = "main_normalized" /\ Len(main_items') = Len(all_items)
       /\ phase = "main_normalized" =>
              /\ phase' = "main_deduplicated"
              /\ unique_places' = places_of(deduplicate(main_items,
                                                        default_similarity_threshold).unique_items,
                                            main_items, 1)
       /\ phase = "main_deduplicated" =>
              /\ phase' = "main_clustered"
              /\ clustered_places' = unique_places
              /\ \A k \in 1..Len(unique_places) :
                     "cluster_id" \in DOMAIN main_items'[unique_places[k]]
       /\ phase = "main_clustered" =>
              \/ phase' = "main_raised"
              \/ /\ phase' = "main_scored"
                 /\ \A k \in 1..Len(clustered_places) :
                        CarriesScores(main_items', clustered_places[k])
       /\ phase = "main_scored" =>
              /\ phase' = "main_ranked"
              /\ Len(ranked_places') = Len(clustered_places)
              /\ \A r \in 1..Len(ranked_places') : CarriesScores(main_items', ranked_places'[r])
       /\ phase' = "main_returned" =>
              /\ CountsAgree(main_result')
              /\ main_result'.items_unique = Len(unique_places)
              /\ \A r \in 1..Len(ranked_places) : CarriesScores(main_items', ranked_places[r])]_vars

\* main has returned after fetching more items than it summarizes
C26_Witness ==
    /\ phase = "main_returned"
    /\ main_result.items_unique > 20
    /\ main_result.items_summarized = 20

====
